---------------------------- MODULE Spec2Model ----------------------------
(***************************************************************************)
(* Model of the data layer of simulation/util/data_base.py: the            *)
(* parameter-keyed caches used by the DataBase hierarchy, the Jacobian     *)
(* width reconciliation of DataBase.df / DataBaseHDD.df / df_boxes and the *)
(* time-dimension reconciliation of f_boxes / df_boxes.                    *)
(*                                                                         *)
(* Two database instances are modelled: wod, a WOD (a DataBaseHDD), and    *)
(* tmm, a WOD_TMM (a plain DataBase whose calculate functions delegate to  *)
(* its inner wod).  The box accessors f_boxes / df_boxes are those of wod. *)
(*                                                                         *)
(* Further parts, each with a specification of its own: the abstract       *)
(* DataBase whose calculate functions may be missing (SpecAbstract), the   *)
(* evaluator's output shapes and the shape assertions (SpecShape), the     *)
(* correlation-structure routines of WOD_Base in exact rational arithmetic *)
(* (SpecCorrelation), the parsing of data and cost function kinds and the  *)
(* construction of a Family (SpecConfiguration), a client of tmm that      *)
(* switches between parameter vectors (SpecMemory), requests to wod across *)
(* processes (SpecProcesses) and from concurrent processes                 *)
(* (SpecConcurrent), the Cholesky factors of the legacy data bases         *)
(* (SpecLegacy), the point data of WOD and WOD_TMM with the near-water     *)
(* mask (SpecPoints), the box data of WOA (SpecBoxData) and the output     *)
(* directory of a CostFunctionJob (SpecJobs).                              *)
(***************************************************************************)
EXTENDS Integers, Sequences, FiniteSets, TLC

(***************************************************************************)
(* Bounds of the model and program constants.                              *)
(***************************************************************************)
NumKeys == 1
MaxParams == 3
DEFAULT_BOXES_T_DIM == 12

Keys == 1..NumKeys
\* one parameter vector: the box accessors (and the three Jacobian accessors
\* taken together) are exercised for a single vector, since the files of
\* different vectors are different files
OneKey == {k \in Keys : \A j \in Keys : k <= j}
PCounts == 1..MaxParams
\* the parameter vectors and the number of requests of a client that
\* switches between vectors
NumVectors == 2
MaxRequests == 4
Vectors == 1..NumVectors
\* requested time dimensions: coarser than, equal to and finer than the default
TimeDims == {DEFAULT_BOXES_T_DIM \div 2, DEFAULT_BOXES_T_DIM, DEFAULT_BOXES_T_DIM * 2}
CalcDims == {t \in TimeDims : t >= DEFAULT_BOXES_T_DIM}

Max(a, b) == IF a >= b THEN a ELSE b

(***************************************************************************)
(* State.                                                                  *)
(***************************************************************************)
VARIABLES
    disk,      \* persistent tier: disk[key][filename]
    hdd_mem,   \* memory tier of wod.hdd_cache
    par_mem,   \* tmm.memory_cache_with_parameters
    last,      \* the last request and what its caller saw
    evaluator, \* the shape of the arrays the model evaluator hands out
    base,      \* a data base of a subtype that overrides only some calculations
    call       \* the last call of an operation outside wod and tmm

vars == <<disk, hdd_mem, par_mem, last, evaluator, base, call>>

\* what the cache accessors of wod and tmm leave alone
aside == <<evaluator, base, call>>

\* wod, tmm and the evaluator
stores == <<disk, hdd_mem, par_mem, last, evaluator>>

\* what the operations without cache state leave alone
caches == <<stores, base>>

(***************************************************************************)
(* Arrays.  An array is described by the parameter key it was evaluated    *)
(* for, its kind, the values of its columns along the last (parameter)     *)
(* axis, the length of its time axis (0 when it has none), whether it is   *)
(* the evaluator's native output or a resampled array, and whether its     *)
(* rows were restricted by the near-water mask.  The arrays at the         *)
(* measurement points also carry their number of axes (ndim) and whether   *)
(* their first axis has the length m of the database ("m") or another      *)
(* length ("other").                                                       *)
(***************************************************************************)
NoValue == [kind |-> "none", key |-> 0, cols |-> << >>, t |-> 0,
            native |-> TRUE, masked |-> FALSE]

\* value of partial derivative j of the Jacobian evaluated with pc parameters
ColVal(key, pc, j) == key * 100 + pc * 10 + j

Width(a) == Len(a.cols)

(***************************************************************************)
(* The model evaluator (external collaborator): deterministic for a fixed  *)
(* parameter vector and configuration.  Nothing in the program constrains  *)
(* the shape of what it hands out at the measurement points: a sound       *)
(* evaluator yields one row per measurement, a faulty one rows of another  *)
(* count or an array with the wrong number of axes.                        *)
(***************************************************************************)
EvaluatorStates == {"sound", "wrong_len", "wrong_ndim"}

EvaluatorLen == IF evaluator = "wrong_len" THEN "other" ELSE "m"

f_boxes_calculate(key, time_dim) ==
    [kind |-> "f_boxes", key |-> key, cols |-> << >>, t |-> time_dim,
     native |-> TRUE, masked |-> FALSE]

df_boxes_calculate(key, p, time_dim) ==
    [kind |-> "df_boxes", key |-> key, cols |-> [j \in 1..p |-> ColVal(key, p, j)],
     t |-> time_dim, native |-> TRUE, masked |-> FALSE]

WOD_f_calculate(key) ==
    [kind |-> "F", key |-> key, cols |-> << >>, t |-> 0,
     native |-> TRUE, masked |-> FALSE,
     ndim |-> IF evaluator = "wrong_ndim" THEN 2 ELSE 1, len |-> EvaluatorLen]

WOD_df_calculate(key, p) ==
    [kind |-> "DF", key |-> key, cols |-> [j \in 1..p |-> ColVal(key, p, j)],
     t |-> 0, native |-> TRUE, masked |-> FALSE,
     ndim |-> IF evaluator = "wrong_ndim" THEN 1 ELSE 2, len |-> EvaluatorLen]

\* util.math.interpolate.change_dim(data, 1, time_dim)
change_dim(data, time_dim) ==
    [data EXCEPT !.t = time_dim, !.native = FALSE]

(***************************************************************************)
(* Cache file names.                                                       *)
(***************************************************************************)
F_cache_filename == <<"WOD_F", 0>>
DF_cache_filename == <<"WOD_DF", 0>>
f_boxes_cache_filename(time_dim) == <<"BOXES_F", time_dim>>
df_boxes_cache_filename(time_dim) == <<"BOXES_DF", time_dim>>

Filenames == {F_cache_filename, DF_cache_filename}
             \cup {f_boxes_cache_filename(t) : t \in CalcDims}
             \cup {df_boxes_cache_filename(t) : t \in CalcDims}
MemNames == {"F", "DF"}


(***************************************************************************)
(* The caches of simulation.util.value_cache.                              *)
(*                                                                         *)
(* A parameter-scoped memory tier holds the results of one resident        *)
(* parameter vector: mem.last is its key (0: none) and mem.entries maps    *)
(* each quantity or file name to its payload (NoValue: absent).            *)
(***************************************************************************)
EmptyMem(names) == [last |-> 0, entries |-> [n \in names |-> NoValue]]

MemLoad(mem, key, name) ==
    IF mem.last = key THEN mem.entries[name] ELSE NoValue

\* a fresh parameter vector supersedes the previous resident entries
MemSave(mem, key, name, v) ==
    [last |-> key,
     entries |-> [n \in DOMAIN mem.entries |->
                    IF n = name THEN v
                    ELSE IF mem.last = key THEN mem.entries[n] ELSE NoValue]]

(***************************************************************************)
(* The persistent cache with its memory tier (use_memory_cache=True).  A   *)
(* cache state st is [disk, mem]: disk[key][filename] is the persisted     *)
(* payload, mem the memory tier of this cache object.  Lookup order:       *)
(* memory tier, persistent tier, else compute and write to both tiers.     *)
(* Whether a payload read from the persistent tier is also kept in the     *)
(* memory tier is left open (promote).                                     *)
(***************************************************************************)
CacheSaveValue(st, key, filename, v) ==
    [disk |-> [st.disk EXCEPT ![key][filename] = v],
     mem |-> MemSave(st.mem, key, filename, v)]

\* the choices open to a lookup: only one served by the persistent tier has any
Promotes(st, key, filename) ==
    IF MemLoad(st.mem, key, filename) = NoValue /\ st.disk[key][filename] # NoValue
    THEN BOOLEAN ELSE {TRUE}

\* variant of the lookup: a computed payload is kept in the memory tier only
CacheGetValue_MemoryOnly(st, key, filename, computed, promote) ==
    LET inMem == MemLoad(st.mem, key, filename)
        onDisk == st.disk[key][filename]
    IN  IF inMem # NoValue
        THEN [st |-> st, value |-> inMem, hit |-> inMem, tier |-> "memory"]
        ELSE IF onDisk # NoValue
        THEN [st |-> IF promote
                     THEN [st EXCEPT !.mem = MemSave(st.mem, key, filename, onDisk)]
                     ELSE st,
              value |-> onDisk, hit |-> onDisk, tier |-> "persistent"]
        ELSE [st |-> [st EXCEPT !.mem = MemSave(st.mem, key, filename, computed)],
              value |-> computed, hit |-> NoValue, tier |-> "computed"]

CacheGetValue(st, key, filename, computed, promote) ==
    LET inMem == MemLoad(st.mem, key, filename)
        onDisk == st.disk[key][filename]
    IN  IF inMem # NoValue
        THEN [st |-> st, value |-> inMem, hit |-> inMem, tier |-> "memory"]
        ELSE IF onDisk # NoValue
        THEN [st |-> IF promote
                     THEN [st EXCEPT !.mem = MemSave(st.mem, key, filename, onDisk)]
                     ELSE st,
              value |-> onDisk, hit |-> onDisk, tier |-> "persistent"]
        ELSE [st |-> CacheSaveValue(st, key, filename, computed),
              value |-> computed, hit |-> NoValue, tier |-> "computed"]

(***************************************************************************)
(* Jacobian width reconciliation and box time-dimension helpers.           *)
(***************************************************************************)
\* df.shape[-1] > len(parameters)
HasTooManyColumns(df, p) == Width(df) > p

\* variant: the stale test off by one (<= instead of <)
HasTooFewColumns_OffByOne(df, p) == Width(df) <= p

\* df.shape[-1] < len(parameters)
HasTooFewColumns(df, p) == Width(df) < p

\* variant: the slice keeps every column
Truncate_KeepsAll(df, p) == df

\* df[(slice(None),) * (df.ndim - 1) + (slice(len(parameters)),)]
Truncate(df, p) == [df EXCEPT !.cols = SubSeq(df.cols, 1, p)]

\* variant: always the default resolution
calculation_time_dim_Default(time_dim) == DEFAULT_BOXES_T_DIM

\* max([time_dim, self.default_boxes_t_dim])
calculation_time_dim(time_dim) == Max(time_dim, DEFAULT_BOXES_T_DIM)

\* variant: the default resolution is resampled too (<= instead of <)
NeedsAverage_OrEqual(time_dim) == time_dim <= DEFAULT_BOXES_T_DIM

\* variant: the comparison reversed
NeedsAverage_Reversed(time_dim) == time_dim > DEFAULT_BOXES_T_DIM

\* time_dim < self.default_boxes_t_dim
NeedsAverage(time_dim) == time_dim < DEFAULT_BOXES_T_DIM

\* assert values.ndim == 1 and len(values) == self.m
IsMeasurementVector(values) == values.ndim = 1 /\ values.len = "m"

\* assert df.ndim == 2 and len(df) == self.m
IsMeasurementMatrix(df) == df.ndim = 2 /\ df.len = "m"

\* points[points_near_water_mask_concatenated]
ApplyMask(a) == [a EXCEPT !.masked = TRUE]

\* variant: the recalculated Jacobian is returned but not saved
SaveRecalculated_Dropped(st, key, filename, df) == st

\* variant: the recalculated Jacobian is written to the memory tier only
SaveRecalculated_MemoryOnly(st, key, filename, df) ==
    [st EXCEPT !.mem = MemSave(st.mem, key, filename, df)]

\* self.hdd_cache.save_value(parameters, filename, df, derivative_used=True, ...)
SaveRecalculated(st, key, filename, df) == CacheSaveValue(st, key, filename, df)

\* a call of a calculate function / the evaluator with its arguments
Call(fname, p, time_dim) == [fn |-> fname, p |-> p, t |-> time_dim]

(***************************************************************************)
(* Accessors.  Each takes the cache state(s) it works on and the request   *)
(* and yields the new cache state(s) together with what the caller sees:   *)
(* outcome ("ok" or the exception raised), the returned value, the calls   *)
(* of its calculate function it made (in order), the number of explicit    *)
(* save_value calls, and the payload the cache lookup found (NoValue on a  *)
(* miss) with the tier that served the lookup.  The f accessors do not     *)
(* look at the length of the parameter vector, so their requests carry     *)
(* p = 0.                                                                  *)
(***************************************************************************)
Calls(miss, recomputed, c) ==
    (IF miss THEN <<c>> ELSE << >>) \o (IF recomputed THEN <<c>> ELSE << >>)

\* evaluates v once and hands its value to F
Bind(v, F(_)) == CHOOSE r \in {F(x) : x \in {v}} : TRUE

\* DataBaseHDD.f of wod
DataBaseHDD_f(st, key, promote) ==
    Bind(CacheGetValue(st, key, F_cache_filename, WOD_f_calculate(key), promote),
         LAMBDA g :
            LET ok == IsMeasurementVector(g.value)
            IN  [st |-> g.st,
                 outcome |-> IF ok THEN "ok" ELSE "AssertionError",
                 value |-> IF ok THEN g.value ELSE NoValue,
                 calls |-> Calls(g.tier = "computed", FALSE, Call("f_calculate", 0, 0)),
                 saves |-> 0, hit |-> g.hit, tier |-> g.tier])

\* variant of DataBaseHDD.df: the truncated Jacobian is written back to the cache
DataBaseHDD_df_SavesTruncated(st, key, p, promote) ==
    Bind(CacheGetValue(st, key, DF_cache_filename, WOD_df_calculate(key, p), promote),
         LAMBDA g :
            LET \* line 270, before the width is looked at
                shaped == IsMeasurementMatrix(g.value)
                many == shaped /\ HasTooManyColumns(g.value, p)
                few == shaped /\ ~many /\ HasTooFewColumns(g.value, p)
                df == IF many THEN Truncate(g.value, p)
                      ELSE IF few THEN WOD_df_calculate(key, p)
                      ELSE g.value
                \* line 284: df.shape[1] of an array with one axis is an IndexError
                indexed == df.ndim >= 2
                ok == shaped /\ indexed /\ Width(df) = p
            IN  [st |-> IF few \/ many
                        THEN SaveRecalculated(g.st, key, DF_cache_filename, df)
                        ELSE g.st,
                 outcome |-> IF ok THEN "ok"
                             ELSE IF shaped /\ ~indexed THEN "IndexError"
                             ELSE "AssertionError",
                 value |-> IF ok THEN df ELSE NoValue,
                 calls |-> Calls(g.tier = "computed", few, Call("df_calculate", p, 0)),
                 saves |-> IF few THEN 1 ELSE 0,
                 hit |-> g.hit, tier |-> g.tier])

\* DataBaseHDD.df of wod
DataBaseHDD_df(st, key, p, promote) ==
    Bind(CacheGetValue(st, key, DF_cache_filename, WOD_df_calculate(key, p), promote),
         LAMBDA g :
            LET \* line 270, before the width is looked at
                shaped == IsMeasurementMatrix(g.value)
                many == shaped /\ HasTooManyColumns(g.value, p)
                few == shaped /\ ~many /\ HasTooFewColumns(g.value, p)
                df == IF many THEN Truncate(g.value, p)
                      ELSE IF few THEN WOD_df_calculate(key, p)
                      ELSE g.value
                \* line 284: df.shape[1] of an array with one axis is an IndexError
                indexed == df.ndim >= 2
                ok == shaped /\ indexed /\ Width(df) = p
            IN  [st |-> IF few THEN SaveRecalculated(g.st, key, DF_cache_filename, df)
                        ELSE g.st,
                 outcome |-> IF ok THEN "ok"
                             ELSE IF shaped /\ ~indexed THEN "IndexError"
                             ELSE "AssertionError",
                 value |-> IF ok THEN df ELSE NoValue,
                 calls |-> Calls(g.tier = "computed", few, Call("df_calculate", p, 0)),
                 saves |-> IF few THEN 1 ELSE 0,
                 hit |-> g.hit, tier |-> g.tier])

\* variant of f_boxes: the averaged array replaces the cached one
f_boxes_CachesAverage(st, key, time_dim, promote) ==
    Bind(CacheGetValue(st, key, f_boxes_cache_filename(calculation_time_dim(time_dim)),
                       f_boxes_calculate(key, calculation_time_dim(time_dim)), promote),
         LAMBDA g :
            LET data == IF NeedsAverage(time_dim) THEN change_dim(g.value, time_dim)
                        ELSE g.value
                ok == data.t = time_dim
            IN  [st |-> IF NeedsAverage(time_dim)
                        THEN CacheSaveValue(g.st, key,
                                 f_boxes_cache_filename(calculation_time_dim(time_dim)),
                                 data)
                        ELSE g.st,
                 outcome |-> IF ok THEN "ok" ELSE "AssertionError",
                 value |-> IF ok THEN data ELSE NoValue,
                 calls |-> Calls(g.tier = "computed", FALSE,
                                 Call("f_boxes_calculate", 0, calculation_time_dim(time_dim))),
                 saves |-> 0,
                 hit |-> g.hit, tier |-> g.tier])

\* DataBase.f_boxes of wod
f_boxes(st, key, time_dim, promote) ==
    Bind(CacheGetValue(st, key, f_boxes_cache_filename(calculation_time_dim(time_dim)),
                       f_boxes_calculate(key, calculation_time_dim(time_dim)), promote),
         LAMBDA g :
            LET data == IF NeedsAverage(time_dim) THEN change_dim(g.value, time_dim)
                        ELSE g.value
                ok == data.t = time_dim
            IN  [st |-> g.st,
                 outcome |-> IF ok THEN "ok" ELSE "AssertionError",
                 value |-> IF ok THEN data ELSE NoValue,
                 calls |-> Calls(g.tier = "computed", FALSE,
                                 Call("f_boxes_calculate", 0, calculation_time_dim(time_dim))),
                 saves |-> 0,
                 hit |-> g.hit, tier |-> g.tier])

\* DataBase.df_boxes of wod
df_boxes(st, key, p, time_dim, promote) ==
    Bind(CacheGetValue(st, key, df_boxes_cache_filename(calculation_time_dim(time_dim)),
                       df_boxes_calculate(key, p, calculation_time_dim(time_dim)), promote),
         LAMBDA g :
            LET calc_t == calculation_time_dim(time_dim)
                filename == df_boxes_cache_filename(calc_t)
                many == HasTooManyColumns(g.value, p)
                few == ~many /\ HasTooFewColumns(g.value, p)
                df == IF many THEN Truncate(g.value, p)
                      ELSE IF few THEN df_boxes_calculate(key, p, calc_t)
                      ELSE g.value
                data == IF NeedsAverage(time_dim) THEN change_dim(df, time_dim) ELSE df
                ok == data.t = time_dim /\ Width(data) = p
            IN  [st |-> IF few THEN SaveRecalculated(g.st, key, filename, df) ELSE g.st,
                 outcome |-> IF ok THEN "ok" ELSE "AssertionError",
                 value |-> IF ok THEN data ELSE NoValue,
                 calls |-> Calls(g.tier = "computed", few,
                                 Call("df_boxes_calculate", p, calc_t)),
                 saves |-> IF few THEN 1 ELSE 0,
                 hit |-> g.hit, tier |-> g.tier])

\* WOD_TMM.f_calculate: self.wod.f(parameters)[mask]
WOD_TMM_f_calculate(st, key, promote) ==
    Bind(DataBaseHDD_f(st, key, promote),
         LAMBDA r :
            [st |-> r.st, outcome |-> r.outcome,
             value |-> IF r.outcome = "ok" THEN ApplyMask(r.value) ELSE NoValue])

\* WOD_TMM.df_calculate: self.wod.df(parameters)[mask]
WOD_TMM_df_calculate(st, key, p, promote) ==
    Bind(DataBaseHDD_df(st, key, p, promote),
         LAMBDA r :
            [st |-> r.st, outcome |-> r.outcome,
             value |-> IF r.outcome = "ok" THEN ApplyMask(r.value) ELSE NoValue])

\* a calculate function that was not called
NotCalled(st) == [st |-> st, outcome |-> "ok", value |-> NoValue]

\* variant of DataBase.f: the lookup takes whatever vector is resident
DataBase_f_AnyVector(st, par, key, promote) ==
    Bind(MemLoad(par, par.last, "F"), LAMBDA cached :
    Bind(IF cached = NoValue THEN WOD_TMM_f_calculate(st, key, promote)
         ELSE NotCalled(st), LAMBDA c :
        LET miss == cached = NoValue
            failed == c.outcome # "ok"
            values == IF miss THEN c.value ELSE cached
            ok == ~failed /\ IsMeasurementVector(values)
        IN  [st |-> c.st,
             par |-> IF miss /\ ~failed THEN MemSave(par, key, "F", c.value) ELSE par,
             outcome |-> IF failed THEN c.outcome
                         ELSE IF ok THEN "ok" ELSE "AssertionError",
             value |-> IF ok THEN values ELSE NoValue,
             calls |-> Calls(miss, FALSE, Call("f_calculate", 0, 0)),
             saves |-> 0,
             hit |-> cached, tier |-> IF miss THEN "computed" ELSE "memory"]))

\* DataBase.f of tmm (st: the caches of tmm.wod, par: tmm's parameter memory tier)
DataBase_f(st, par, key, promote) ==
    Bind(MemLoad(par, key, "F"), LAMBDA cached :
    Bind(IF cached = NoValue THEN WOD_TMM_f_calculate(st, key, promote)
         ELSE NotCalled(st), LAMBDA c :
        LET miss == cached = NoValue
            failed == c.outcome # "ok"
            values == IF miss THEN c.value ELSE cached
            ok == ~failed /\ IsMeasurementVector(values)
        IN  [st |-> c.st,
             par |-> IF miss /\ ~failed THEN MemSave(par, key, "F", c.value) ELSE par,
             outcome |-> IF failed THEN c.outcome
                         ELSE IF ok THEN "ok" ELSE "AssertionError",
             value |-> IF ok THEN values ELSE NoValue,
             calls |-> Calls(miss, FALSE, Call("f_calculate", 0, 0)),
             saves |-> 0,
             hit |-> cached, tier |-> IF miss THEN "computed" ELSE "memory"]))

\* DataBase.df of tmm: the part after get_value stored or found df0
DataBase_df_reconcile(c, par1, cached, key, p, promote) ==
    LET miss == cached = NoValue
        df0 == IF miss THEN c.value ELSE cached
        \* assert df.ndim == 2 and len(df) == self.m
        \*        and df.shape[1] in [len(parameters), len(parameters)+1]
        asserted == IsMeasurementMatrix(df0) /\ Width(df0) \in {p, p + 1}
        many == HasTooManyColumns(df0, p)
        few == ~many /\ HasTooFewColumns(df0, p)
    IN  IF ~asserted
        THEN [st |-> c.st, par |-> par1, outcome |-> "AssertionError",
              value |-> NoValue,
              calls |-> Calls(miss, FALSE, Call("df_calculate", p, 0)),
              saves |-> 0, hit |-> cached,
              tier |-> IF miss THEN "computed" ELSE "memory"]
        ELSE Bind(IF few THEN WOD_TMM_df_calculate(c.st, key, p, promote)
                  ELSE NotCalled(c.st), LAMBDA c2 :
                LET failed2 == c2.outcome # "ok"
                    df == IF many THEN Truncate(df0, p)
                          ELSE IF few THEN c2.value ELSE df0
                IN  [st |-> c2.st,
                     par |-> IF few /\ ~failed2 THEN MemSave(par1, key, "DF", df)
                             ELSE par1,
                     outcome |-> c2.outcome,
                     value |-> IF failed2 THEN NoValue ELSE df,
                     calls |-> Calls(miss, few, Call("df_calculate", p, 0)),
                     saves |-> IF few /\ ~failed2 THEN 1 ELSE 0,
                     hit |-> cached,
                     tier |-> IF miss THEN "computed" ELSE "memory"])

\* DataBase.df of tmm
DataBase_df(st, par, key, p, promote) ==
    Bind(MemLoad(par, key, "DF"), LAMBDA cached :
    Bind(IF cached = NoValue THEN WOD_TMM_df_calculate(st, key, p, promote)
         ELSE NotCalled(st), LAMBDA c :
        IF c.outcome # "ok"
        THEN [st |-> c.st, par |-> par, outcome |-> c.outcome, value |-> NoValue,
              calls |-> <<Call("df_calculate", p, 0)>>, saves |-> 0,
              hit |-> cached, tier |-> "computed"]
        ELSE DataBase_df_reconcile(
                 c,
                 IF cached = NoValue THEN MemSave(par, key, "DF", c.value) ELSE par,
                 cached, key, p, promote)))

(***************************************************************************)
(* A data base whose class overrides only the calculations in implemented  *)
(* (the others are those of DataBase and WOD_Base, which raise             *)
(* NotImplementedError).  memory_cache maps a name to its cached value     *)
(* (NoValue: absent); par is its memory_cache_with_parameters.  A lookup   *)
(* that misses calls the calculate function and stores what it returns;    *)
(* when the function raises, the exception passes through the lookup and   *)
(* nothing is stored.  A result is [b, outcome, value]: the data base      *)
(* after the call, "ok" or the exception, and the value returned.          *)
(***************************************************************************)
Calculations ==
    {"f_calculate", "df_calculate", "results_calculate", "deviations_calculate",
     "correlation_matrix_calculate",
     "correlation_matrix_cholesky_decomposition_calculate"}

MemoryCacheNames ==
    {"m", "results", "deviations", "correlation_matrix",
     "correlation_matrix_cholesky_decomposition"}

NewDataBase(implemented) ==
    [implemented |-> implemented,
     memory_cache |-> [name \in MemoryCacheNames |-> NoValue],
     par |-> EmptyMem(MemNames)]

Calculated(name, key) ==
    [kind |-> name, key |-> key, cols |-> << >>, t |-> 0, native |-> TRUE,
     masked |-> FALSE]

\* variant: a calculation that is not overridden returns a default value
Calculate_Default(b, name, key) ==
    [b |-> b, outcome |-> "ok", value |-> Calculated(name, key)]

\* an overridden calculation returns its value; raise NotImplementedError(...)
Calculate(b, name, key) ==
    IF name \in b.implemented
    THEN [b |-> b, outcome |-> "ok", value |-> Calculated(name, key)]
    ELSE [b |-> b, outcome |-> "NotImplementedError", value |-> NoValue]

\* self.memory_cache.get_value(name, calculate): c is what calculate ends in
MemoryCacheGetValue(b, name, c) ==
    IF b.memory_cache[name] # NoValue
    THEN [b |-> b, outcome |-> "ok", value |-> b.memory_cache[name]]
    ELSE IF c.outcome # "ok"
    THEN [b |-> c.b, outcome |-> c.outcome, value |-> NoValue]
    ELSE [b |-> [c.b EXCEPT !.memory_cache[name] = c.value],
          outcome |-> "ok", value |-> c.value]

\* self.memory_cache_with_parameters.get_value(parameters, name, calculate)
ParameterCacheGetValue(b, key, name, c) ==
    IF MemLoad(b.par, key, name) # NoValue
    THEN [b |-> b, outcome |-> "ok", value |-> MemLoad(b.par, key, name)]
    ELSE IF c.outcome # "ok"
    THEN [b |-> c.b, outcome |-> c.outcome, value |-> NoValue]
    ELSE [b |-> [c.b EXCEPT !.par = MemSave(c.b.par, key, name, c.value)],
          outcome |-> "ok", value |-> c.value]

\* DataBase.results
base_results(b) ==
    MemoryCacheGetValue(b, "results", Calculate(b, "results_calculate", 0))

\* DataBase.m: len(self.results), cached as 'm'
base_m(b) ==
    MemoryCacheGetValue(b, "m",
        Bind(base_results(b), LAMBDA r :
            IF r.outcome = "ok" THEN [r EXCEPT !.value = Calculated("m", 0)] ELSE r))

\* an assertion that reads self.m, after the lookup that ended in r
AssertWithM(r) ==
    IF r.outcome # "ok" THEN r
    ELSE Bind(base_m(r.b), LAMBDA mm :
            [b |-> mm.b, outcome |-> mm.outcome,
             value |-> IF mm.outcome = "ok" THEN r.value ELSE NoValue])

\* DataBase.deviations
base_deviations(b) ==
    AssertWithM(MemoryCacheGetValue(b, "deviations",
                                    Calculate(b, "deviations_calculate", 0)))

\* DataBase.f
base_f(b, key) ==
    AssertWithM(ParameterCacheGetValue(b, key, "F", Calculate(b, "f_calculate", key)))

\* DataBase.df, for a parameter vector of the length the Jacobian was
\* calculated for
base_df(b, key) ==
    AssertWithM(ParameterCacheGetValue(b, key, "DF", Calculate(b, "df_calculate", key)))

\* WOD_Base.correlation_matrix
base_correlation_matrix(b) ==
    MemoryCacheGetValue(b, "correlation_matrix",
                        Calculate(b, "correlation_matrix_calculate", 0))

\* WOD_Base.correlation_matrix_cholesky_decomposition
base_correlation_matrix_cholesky_decomposition(b) ==
    MemoryCacheGetValue(b, "correlation_matrix_cholesky_decomposition",
        Calculate(b, "correlation_matrix_cholesky_decomposition_calculate", 0))

(***************************************************************************)
(* Requests and the initial state.                                         *)
(***************************************************************************)

NoCall == [op |-> "none"]

NoRequest == [op |-> "none", key |-> 0, p |-> 0, t |-> 0, outcome |-> "none",
              value |-> NoValue, calls |-> << >>, saves |-> 0, hit |-> NoValue,
              tier |-> "none"]

Request(op, key, p, t, r) ==
    [op |-> op, key |-> key, p |-> p, t |-> t, outcome |-> r.outcome,
     value |-> r.value, calls |-> r.calls, saves |-> r.saves, hit |-> r.hit,
     tier |-> r.tier]

HddState == [disk |-> disk, mem |-> hdd_mem]

\* wod and tmm with empty caches and a sound evaluator
InitStores ==
    /\ disk = [k \in Keys \cup Vectors |-> [n \in Filenames |-> NoValue]]
    /\ hdd_mem = EmptyMem(Filenames)
    /\ par_mem = EmptyMem(MemNames)
    /\ last = NoRequest
    /\ evaluator = "sound"

InitCaches ==
    /\ InitStores
    /\ base = NewDataBase({})

Init ==
    /\ InitCaches
    /\ call = NoCall

\* a new process: DataBase.__init__ creates empty memory tiers, the disk persists
NewSession ==
    /\ hdd_mem' = EmptyMem(Filenames)
    /\ par_mem' = EmptyMem(MemNames)
    /\ last' = NoRequest
    /\ UNCHANGED <<disk, aside>>

WodF ==
    \E key \in Keys :
      \E promote \in Promotes(HddState, key, F_cache_filename) :
        \E r \in {DataBaseHDD_f(HddState, key, promote)} :
        /\ disk' = r.st.disk
        /\ hdd_mem' = r.st.mem
        /\ last' = Request("wod.f", key, 0, 0, r)
        /\ UNCHANGED <<par_mem, aside>>

WodDFRequest(key, p, promote) ==
    \E r \in {DataBaseHDD_df(HddState, key, p, promote)} :
    /\ disk' = r.st.disk
    /\ hdd_mem' = r.st.mem
    /\ last' = Request("wod.df", key, p, 0, r)
    /\ UNCHANGED <<par_mem, aside>>

WodDF ==
    \E key \in Keys, p \in PCounts :
      \E promote \in Promotes(HddState, key, DF_cache_filename) :
        WodDFRequest(key, p, promote)

\* wod.df for the one vector of OneKey
WodDFOne ==
    \E key \in OneKey, p \in PCounts :
      \E promote \in Promotes(HddState, key, DF_cache_filename) :
        WodDFRequest(key, p, promote)

TmmF ==
    \E key \in Keys :
      \E promote \in Promotes(HddState, key, F_cache_filename) :
        \E r \in {DataBase_f(HddState, par_mem, key, promote)} :
        /\ disk' = r.st.disk
        /\ hdd_mem' = r.st.mem
        /\ par_mem' = r.par
        /\ last' = Request("tmm.f", key, 0, 0, r)
        /\ UNCHANGED aside

TmmDFRequest(key, p, promote) ==
    \E r \in {DataBase_df(HddState, par_mem, key, p, promote)} :
    /\ disk' = r.st.disk
    /\ hdd_mem' = r.st.mem
    /\ par_mem' = r.par
    /\ last' = Request("tmm.df", key, p, 0, r)
    /\ UNCHANGED aside

TmmDF ==
    \E key \in Keys, p \in PCounts :
      \E promote \in Promotes(HddState, key, DF_cache_filename) :
        TmmDFRequest(key, p, promote)

\* tmm.df for the one vector of OneKey
TmmDFOne ==
    \E key \in OneKey, p \in PCounts :
      \E promote \in Promotes(HddState, key, DF_cache_filename) :
        TmmDFRequest(key, p, promote)

FBoxes ==
    \E key \in OneKey, t \in TimeDims :
      \E promote \in Promotes(HddState, key, f_boxes_cache_filename(calculation_time_dim(t))) :
        \E r \in {f_boxes(HddState, key, t, promote)} :
        /\ disk' = r.st.disk
        /\ hdd_mem' = r.st.mem
        /\ last' = Request("f_boxes", key, 0, t, r)
        /\ UNCHANGED <<par_mem, aside>>

DFBoxes ==
    \E key \in OneKey, p \in PCounts, t \in TimeDims :
      \E promote \in Promotes(HddState, key, df_boxes_cache_filename(calculation_time_dim(t))) :
        \E r \in {df_boxes(HddState, key, p, t, promote)} :
        /\ disk' = r.st.disk
        /\ hdd_mem' = r.st.mem
        /\ last' = Request("df_boxes", key, p, t, r)
        /\ UNCHANGED <<par_mem, aside>>

\* requests to the point databases wod and tmm
Next == WodF \/ WodDF \/ TmmF \/ TmmDF \/ NewSession

Spec == Init /\ [][Next]_vars

\* requests to the box accessors
NextBoxes == FBoxes \/ DFBoxes \/ NewSession

SpecBoxes == Init /\ [][NextBoxes]_vars

\* requests to the three Jacobian accessors for one parameter vector
NextDF == WodDFOne \/ TmmDFOne \/ DFBoxes \/ NewSession

SpecDF == Init /\ [][NextDF]_vars

(***************************************************************************)
(* Vocabulary of the properties.                                           *)
(***************************************************************************)
PointOps == {"wod.f", "wod.df", "tmm.f", "tmm.df"}
DFOps == {"wod.df", "tmm.df", "df_boxes"}
BoxOps == {"f_boxes", "df_boxes"}

Returned(l) == l.outcome = "ok"
FoundCached(l) == l.hit # NoValue

\* the same request issued again in the next step
SameRequestAgain ==
    /\ last'.op = last.op
    /\ last'.key = last.key
    /\ last'.p = last.p
    /\ last'.t = last.t

\* the evaluator's direct output for the Jacobian request l, as it is stored
FreshJacobian(l) ==
    IF l.op = "df_boxes"
    THEN [kind |-> "df_boxes", key |-> l.key,
          cols |-> [j \in 1..l.p |-> ColVal(l.key, l.p, j)],
          t |-> Max(l.t, DEFAULT_BOXES_T_DIM), native |-> TRUE, masked |-> FALSE]
    ELSE [kind |-> "DF", key |-> l.key,
          cols |-> [j \in 1..l.p |-> ColVal(l.key, l.p, j)],
          t |-> 0, native |-> TRUE, masked |-> l.op = "tmm.df",
          ndim |-> 2, len |-> "m"]

\* ... and as the accessor hands it to the caller
FreshJacobianReturned(l) ==
    IF l.op = "df_boxes" /\ l.t < DEFAULT_BOXES_T_DIM
    THEN [FreshJacobian(l) EXCEPT !.t = l.t, !.native = FALSE]
    ELSE FreshJacobian(l)

\* the first p columns of the array the lookup found, as handed to the caller
TruncatedHit(l) ==
    IF l.op = "df_boxes" /\ l.t < DEFAULT_BOXES_T_DIM
    THEN [l.hit EXCEPT !.cols = SubSeq(l.hit.cols, 1, l.p), !.t = l.t, !.native = FALSE]
    ELSE [l.hit EXCEPT !.cols = SubSeq(l.hit.cols, 1, l.p)]

\* the file a Jacobian request l of wod reads
JacobianFile(l) ==
    IF l.op = "df_boxes" THEN <<"BOXES_DF", Max(l.t, DEFAULT_BOXES_T_DIM)>>
    ELSE <<"WOD_DF", 0>>

\* the cache entry behind the Jacobian request l holds exactly the array a
EntryIs(l, a) ==
    IF l.op = "tmm.df"
    THEN par_mem.last = l.key /\ par_mem.entries["DF"] = a
    ELSE /\ disk[l.key][JacobianFile(l)] = a
         /\ MemLoad(hdd_mem, l.key, JacobianFile(l)) \in {NoValue, a}

(***************************************************************************)
(* C1  Cache idempotence.  When a request f(p) or df(p) to wod or tmm has  *)
(* returned and the very same request is issued again (same vector, same   *)
(* parameter count, nothing in between), the second request does not call  *)
(* the calculate function and returns the identical payload; over the two  *)
(* requests the calculate function is called at most once, and exactly     *)
(* once when the first request found nothing cached.                       *)
(***************************************************************************)
C1_CacheIdempotence ==
    [][ (last.op \in PointOps /\ Returned(last) /\ SameRequestAgain)
            => /\ last'.calls = << >>
               /\ Returned(last')
               /\ last'.value = last.value
               /\ Len(last.calls) <= 1
               /\ (~FoundCached(last) => Len(last.calls) = 1) ]_vars

\* a df request of tmm served from the memory tier a previous request filled
C1_Witness ==
    /\ last.op = "tmm.df"
    /\ last.tier = "memory"
    /\ Returned(last)
    /\ last.calls = << >>
    /\ Width(last.hit) = last.p

(***************************************************************************)
(* C2  Truncation correctness.  Whenever a Jacobian accessor finds a       *)
(* cached Jacobian with more columns than the request has parameters       *)
(* (p + k columns, k > 0), it returns, without raising, exactly the first  *)
(* p columns of the cached array.                                          *)
(***************************************************************************)
C2_TruncationCorrectness ==
    (last.op \in DFOps /\ FoundCached(last) /\ Width(last.hit) > last.p)
        => /\ Returned(last)
           /\ last.value = TruncatedHit(last)

(***************************************************************************)
(* C3  Stale-recompute correctness.  Whenever a Jacobian accessor finds a  *)
(* cached Jacobian with fewer columns than the request has parameters, it  *)
(* calls the evaluator with the current parameters and returns an array    *)
(* of exactly p columns equal to the evaluator's direct output at p.       *)
(***************************************************************************)
C3_StaleRecompute ==
    (last.op \in DFOps /\ FoundCached(last) /\ Width(last.hit) < last.p)
        => /\ \E i \in 1..Len(last.calls) : last.calls[i].p = last.p
           /\ Width(last.value) = last.p
           /\ last.value = FreshJacobianReturned(last)

(***************************************************************************)
(* C4  A stale cached Jacobian is recoverable: no Jacobian accessor, the   *)
(* memory-tier DataBase.df included, raises because the cached array has   *)
(* fewer columns than the request has parameters.                          *)
(***************************************************************************)
C4_StaleIsNotAnError ==
    (last.op \in DFOps /\ FoundCached(last) /\ Width(last.hit) < last.p)
        => last.outcome # "AssertionError"

(***************************************************************************)
(* C5  Width invariant on return.  Whenever DataBase.df, DataBaseHDD.df or *)
(* df_boxes returns an array, after any earlier requests with other        *)
(* parameter counts, its last axis has length exactly len(parameters) of   *)
(* the current request.                                                    *)
(***************************************************************************)
C5_WidthOnReturn ==
    (last.op \in DFOps /\ Returned(last)) => Width(last.value) = last.p

\* tmm.df returned although the cached Jacobian had another width
C5_Witness ==
    /\ last.op = "tmm.df"
    /\ Returned(last)
    /\ FoundCached(last)
    /\ Width(last.hit) # last.p

(***************************************************************************)
(* C6  After a stale-recompute the cache entry of the key holds the        *)
(* freshly computed Jacobian, and the next df request with the same        *)
(* parameters and parameter count is a plain hit: it finds the fresh       *)
(* array, returns what the recomputing request returned and neither calls  *)
(* the evaluator nor saves.                                                *)
(***************************************************************************)
StaleRecomputed(l) ==
    /\ l.op \in DFOps
    /\ FoundCached(l)
    /\ Width(l.hit) < l.p
    /\ Returned(l)
    /\ l.saves = 1

C6_StaleRecomputeIsSaved ==
    [][ StaleRecomputed(last)
            => /\ EntryIs(last, FreshJacobian(last))
               /\ SameRequestAgain
                    => /\ last'.hit = FreshJacobian(last)
                       /\ last'.calls = << >>
                       /\ last'.saves = 0
                       /\ Returned(last')
                       /\ last'.value = last.value ]_vars

\* df_boxes has just recomputed and saved a Jacobian that was too narrow
C6_Witness ==
    /\ StaleRecomputed(last)
    /\ last.op = "df_boxes"
    /\ last.calls # << >>

(***************************************************************************)
(* C7  Only the stale-width path recomputes or writes on a cache hit.      *)
(* When the cached Jacobian has at least as many columns as the request    *)
(* (equal or truncation case), the accessor neither calls the evaluator    *)
(* nor save_value, and the cache entry still holds the found array with    *)
(* all of its columns (so a request for the wider count is still served    *)
(* from it).                                                               *)
(***************************************************************************)
C7_HitLeavesEntryAlone ==
    (last.op \in DFOps /\ FoundCached(last) /\ Width(last.hit) >= last.p)
        => /\ last.calls = << >>
           /\ last.saves = 0
           /\ EntryIs(last, last.hit)

\* wod.df truncated a wider cached Jacobian
C7_Witness ==
    /\ last.op = "wod.df"
    /\ FoundCached(last)
    /\ Width(last.hit) > last.p
    /\ Returned(last)
    /\ Width(last.value) = last.p

(***************************************************************************)
(* C8  Box-series storage resolution.  f_boxes and df_boxes call the       *)
(* evaluator with, and read the cache file of, time_dim = max(requested,   *)
(* default_boxes_t_dim); every payload stored under the box file of        *)
(* resolution T (in the persistent or the memory tier), one written by a   *)
(* stale-width recompute of a coarse request included, is the evaluator's  *)
(* own output with time axis T, never a downsampled array.                 *)
(***************************************************************************)
BoxFiles == {fn \in Filenames : fn[1] \in {"BOXES_F", "BOXES_DF"}}

StoredAtResolution(a, fn) == a = NoValue \/ (a.t = fn[2] /\ a.native)

C8_BoxStorageResolution ==
    /\ last.op \in BoxOps
        => /\ \A i \in 1..Len(last.calls) :
                last.calls[i].t = Max(last.t, DEFAULT_BOXES_T_DIM)
           /\ FoundCached(last) => last.hit.t = Max(last.t, DEFAULT_BOXES_T_DIM)
    /\ \A k \in Keys, fn \in BoxFiles :
           /\ StoredAtResolution(disk[k][fn], fn)
           /\ StoredAtResolution(hdd_mem.entries[fn], fn)

\* a coarse df_boxes request recomputed a too narrow Jacobian and saved it
C8_Witness ==
    /\ last.op = "df_boxes"
    /\ last.t < DEFAULT_BOXES_T_DIM
    /\ last.saves = 1
    /\ Returned(last)
    /\ disk[last.key][<<"BOXES_DF", DEFAULT_BOXES_T_DIM>>].t = DEFAULT_BOXES_T_DIM

(***************************************************************************)
(* C9  Time-axis invariant.  Every f_boxes and df_boxes request returns    *)
(* (its assertions hold), and the time axis of the returned array has      *)
(* exactly the requested length, for requests coarser than, equal to and   *)
(* finer than the default.                                                 *)
(***************************************************************************)
C9_TimeAxisOnReturn ==
    last.op \in BoxOps => (Returned(last) /\ last.value.t = last.t)

\* a coarse request was answered from the canonical entry
C9_Witness ==
    /\ last.op = "f_boxes"
    /\ last.t < DEFAULT_BOXES_T_DIM
    /\ FoundCached(last)
    /\ last.hit.t = DEFAULT_BOXES_T_DIM
    /\ Returned(last)
    /\ last.value.t = last.t

(***************************************************************************)
(* C10  Coarse requests leave the canonical entry untouched.  A stored     *)
(* f_boxes entry is never changed by any later request; f_boxes calls the  *)
(* evaluator only when the persistent entry of the calculation resolution  *)
(* is absent (so requests with time_dim <= default call it at most once    *)
(* for a vector); and a request served from the cache finds the            *)
(* evaluator's unmodified output of that resolution.                       *)
(***************************************************************************)
CanonicalF(key, T) ==
    [kind |-> "f_boxes", key |-> key, cols |-> << >>, t |-> T,
     native |-> TRUE, masked |-> FALSE]

C10_CanonicalEntryUntouched ==
    [][ /\ \A k \in Keys, T \in CalcDims :
            disk[k][<<"BOXES_F", T>>] # NoValue
                => disk'[k][<<"BOXES_F", T>>] = disk[k][<<"BOXES_F", T>>]
        /\ last'.op = "f_boxes"
            => /\ last'.calls # << >>
                    => disk[last'.key][<<"BOXES_F", Max(last'.t, DEFAULT_BOXES_T_DIM)>>]
                           = NoValue
               /\ FoundCached(last')
                    => last'.hit = CanonicalF(last'.key, Max(last'.t, DEFAULT_BOXES_T_DIM))
               /\ disk'[last'.key][<<"BOXES_F", Max(last'.t, DEFAULT_BOXES_T_DIM)>>]
                      = CanonicalF(last'.key, Max(last'.t, DEFAULT_BOXES_T_DIM)) ]_vars

\* a canonical request served from the memory tier an earlier request filled
C10_Witness ==
    /\ last.op = "f_boxes"
    /\ last.t = DEFAULT_BOXES_T_DIM
    /\ last.tier = "memory"
    /\ last.calls = << >>
    /\ last.value = CanonicalF(last.key, DEFAULT_BOXES_T_DIM)

(***************************************************************************)
(* C11  Resampling is applied if and only if the requested time dimension  *)
(* is below the default: the array a box accessor returns is a resampled   *)
(* one exactly when time_dim < default_boxes_t_dim, and a request for      *)
(* exactly the default resolution that finds a cached array (of the        *)
(* requested width) returns that cached canonical array itself.            *)
(***************************************************************************)
C11_ResampleOnlyWhenCoarser ==
    (last.op \in BoxOps /\ Returned(last))
        => /\ (~last.value.native) <=> (last.t < DEFAULT_BOXES_T_DIM)
           /\ (/\ last.t = DEFAULT_BOXES_T_DIM
               /\ FoundCached(last)
               /\ (last.op = "f_boxes" \/ Width(last.hit) = last.p))
                  => last.value = last.hit

\* df_boxes at exactly the default resolution handed out the cached array
C11_Witness ==
    /\ last.op = "df_boxes"
    /\ last.t = DEFAULT_BOXES_T_DIM
    /\ Returned(last)
    /\ FoundCached(last)
    /\ last.value = last.hit
    /\ last.value.native

(***************************************************************************)
(* Two-group block correlation (WOD.check_regularity and the functions     *)
(* that use it).  The program computes in floating point; the model        *)
(* computes the same expressions exactly, over rationals <<num, den>> in   *)
(* lowest terms with den > 0.                                              *)
(***************************************************************************)
MaxGroupSize == 2

Abs(i) == IF i < 0 THEN -i ELSE i

RECURSIVE GCD(_, _)
GCD(i, j) == IF j = 0 THEN i ELSE GCD(j, i % j)

Rat(num, den) ==
    LET g == GCD(Abs(num), Abs(den))
        s == IF den < 0 THEN -1 ELSE 1
    IN  <<(s * num) \div g, (s * den) \div g>>

RInt(i) == <<i, 1>>

\* sums and products cancel common factors before they multiply, which
\* keeps the intermediate integers small
RAdd(x, y) ==
    LET g == GCD(x[2], y[2])
    IN  Rat(x[1] * (y[2] \div g) + y[1] * (x[2] \div g), (x[2] \div g) * y[2])

RSub(x, y) == RAdd(x, <<0 - y[1], y[2]>>)

RMul(x, y) ==
    LET g1 == GCD(Abs(x[1]), y[2])
        g2 == GCD(Abs(y[1]), x[2])
    IN  <<(x[1] \div g1) * (y[1] \div g2), (x[2] \div g2) * (y[2] \div g1)>>

\* defined where y is not zero
RDiv(x, y) == RMul(x, IF y[1] < 0 THEN <<0 - y[2], 0 - y[1]>> ELSE <<y[2], y[1]>>)

RECURSIVE RPow(_, _)
RPow(x, k) == IF k = 0 THEN RInt(1) ELSE RMul(x, RPow(x, k - 1))

RECURSIVE RSum(_)
RSum(xs) == IF xs = << >> THEN RInt(0) ELSE RAdd(Head(xs), RSum(Tail(xs)))

\* np.log and the float arithmetic on its results; a logarithm is kept as
\* the number it is the logarithm of, so that a sum of logarithms is a
\* product: np.log(0) is -inf, np.log of a negative number is nan, and
\* 0 * -inf is nan
Log(x) ==
    IF x[1] > 0 THEN [kind |-> "finite", exp |-> x]
    ELSE IF x[1] = 0 THEN [kind |-> "-inf", exp |-> RInt(0)]
    ELSE [kind |-> "nan", exp |-> RInt(0)]

LogTimes(k, l) ==
    IF l.kind = "finite" THEN [l EXCEPT !.exp = RPow(l.exp, k)]
    ELSE IF l.kind = "-inf" /\ k > 0 THEN l
    ELSE [kind |-> "nan", exp |-> RInt(0)]

LogPlus(l1, l2) ==
    IF l1.kind = "nan" \/ l2.kind = "nan" THEN [kind |-> "nan", exp |-> RInt(0)]
    ELSE IF l1.kind = "-inf" \/ l2.kind = "-inf" THEN [kind |-> "-inf", exp |-> RInt(0)]
    ELSE [kind |-> "finite", exp |-> RMul(l1.exp, l2.exp)]

regularity_factor(cp, n, m) ==
    RSub(RMul(RAdd(RInt(1), RMul(RInt(n - 1), cp[1])),
              RAdd(RInt(1), RMul(RInt(m - 1), cp[2]))),
         RMul(RInt(n * m), RPow(cp[3], 2)))

\* variant: only a negative factor is refused
check_regularity_Strict(cp, n, m) ==
    IF regularity_factor(cp, n, m)[1] < 0 THEN "SingularMatrixError" ELSE "returned"

check_regularity(cp, n, m) ==
    IF regularity_factor(cp, n, m)[1] <= 0 THEN "SingularMatrixError" ELSE "returned"

NoNumber == [kind |-> "none", exp |-> RInt(0)]

\* variant: the first group counted in full
ln_det_correlation_matrix_FullGroup(cp, n, m) ==
    IF check_regularity(cp, n, m) # "returned"
    THEN [outcome |-> "SingularMatrixError", value |-> NoNumber]
    ELSE [outcome |-> "returned",
          value |-> LogPlus(LogPlus(LogTimes(n, Log(RSub(RInt(1), cp[1]))),
                                    LogTimes(m - 1, Log(RSub(RInt(1), cp[2])))),
                            Log(regularity_factor(cp, n, m)))]

\* variant: no regularity check
ln_det_correlation_matrix_Unchecked(cp, n, m) ==
    [outcome |-> "returned",
     value |-> LogPlus(LogPlus(LogTimes(n - 1, Log(RSub(RInt(1), cp[1]))),
                               LogTimes(m - 1, Log(RSub(RInt(1), cp[2])))),
                       Log(regularity_factor(cp, n, m)))]

ln_det_correlation_matrix(cp, n, m) ==
    IF check_regularity(cp, n, m) # "returned"
    THEN [outcome |-> "SingularMatrixError", value |-> NoNumber]
    ELSE [outcome |-> "returned",
          value |-> LogPlus(LogPlus(LogTimes(n - 1, Log(RSub(RInt(1), cp[1]))),
                                    LogTimes(m - 1, Log(RSub(RInt(1), cp[2])))),
                            Log(regularity_factor(cp, n, m)))]

\* project: the two groups of a stacked vector, reduced to their squared
\* norms (index 0), their sums (index 1), or both (no index)
Groups(values, split_index) ==
    <<SubSeq(values, 1, split_index), SubSeq(values, split_index + 1, Len(values))>>

project_squared(values, split_index) ==
    [i \in 1..2 |-> LET value == Groups(values, split_index)[i]
                    IN  RSum([k \in 1..Len(value) |-> RMul(value[k], value[k])])]

project_summed(values, split_index) ==
    [i \in 1..2 |-> RSum(Groups(values, split_index)[i])]

project(values, split_index) ==
    <<project_squared(values, split_index), project_summed(values, split_index)>>

\* 2x2 np.matrix arithmetic
MatMul2(X, Y) ==
    [i \in 1..2 |-> [j \in 1..2 |-> RAdd(RMul(X[i][1], Y[1][j]), RMul(X[i][2], Y[2][j]))]]

MatAdd2(X, Y) == [i \in 1..2 |-> [j \in 1..2 |-> RAdd(X[i][j], Y[i][j])]]

Det2(X) == RSub(RMul(X[1][1], X[2][2]), RMul(X[1][2], X[2][1]))

\* X.I, defined where Det2(X) is not zero
Inv2(X) ==
    LET d == Det2(X)
        zero == RInt(0)
    IN  <<<<RDiv(X[2][2], d), RDiv(RSub(zero, X[1][2]), d)>>,
          <<RDiv(RSub(zero, X[2][1]), d), RDiv(X[1][1], d)>>>>

projected_product_inverse_correlation_matrix_both_sides(factor_projected, cp, n, m) ==
    LET factor_squared == factor_projected[1]
        factor_summed == factor_projected[2]
        a == cp[1]
        b == cp[2]
        c == cp[3]
        zero == RInt(0)
        A == <<<<a, c>>, <<c, b>>>>
        W == <<<<RSub(RInt(1), a), zero>>, <<zero, RSub(RInt(1), b)>>>>
        D == <<<<RInt(n), zero>>, <<zero, RInt(m)>>>>
        H == MatAdd2(W, MatMul2(D, A))
        core == MatMul2(MatMul2(MatMul2(Inv2(W), A), Inv2(H)), Inv2(W))
        first == RAdd(RDiv(factor_squared[1], RSub(RInt(1), a)),
                      RDiv(factor_squared[2], RSub(RInt(1), b)))
        second == RSum([k \in 1..4 |->
                          LET i == ((k - 1) \div 2) + 1
                              j == ((k - 1) % 2) + 1
                          IN  RMul(RMul(factor_summed[i], core[i][j]), factor_summed[j])])
    IN  IF check_regularity(cp, n, m) # "returned"
        THEN [outcome |-> "SingularMatrixError", value |-> NoNumber]
        ELSE IF Det2(W)[1] = 0 \/ Det2(H)[1] = 0
        THEN [outcome |-> "LinAlgError", value |-> NoNumber]
        ELSE [outcome |-> "returned",
              value |-> [kind |-> "finite", exp |-> RAdd(first, second)]]

(***************************************************************************)
(* The explicit (n+m)x(n+m) correlation matrix: unit diagonal, a within    *)
(* group 1, b within group 2, c across the groups; its determinant and     *)
(* Sigma^-1 x by Cramer's rule.                                            *)
(***************************************************************************)
Sigma(cp, n, m) ==
    [i \in 1..(n + m) |-> [j \in 1..(n + m) |->
        IF i = j THEN RInt(1)
        ELSE IF i <= n /\ j <= n THEN cp[1]
        ELSE IF i > n /\ j > n THEN cp[2]
        ELSE cp[3]]]

\* the determinant by elimination: the first row with a nonzero entry in
\* column 1 is the pivot row, its multiples clear column 1 of the other
\* rows, and the determinant is the pivot's cofactor product
RECURSIVE Det(_)
Det(M) ==
    LET size == Len(M)
        rows == {i \in 1..size : M[i][1][1] # 0}
    IN  IF size = 1 THEN M[1][1]
        ELSE IF rows = {} THEN RInt(0)
        ELSE LET p == CHOOSE i \in rows : \A k \in rows : i <= k
                 row(i) == IF i < p THEN i ELSE i + 1
                 reduced == [i \in 1..(size - 1) |-> [j \in 1..(size - 1) |->
                                RSub(M[row(i)][j + 1],
                                     RMul(RDiv(M[row(i)][1], M[p][1]), M[p][j + 1]))]]
             IN  RMul(IF p % 2 = 1 THEN M[p][1] ELSE RSub(RInt(0), M[p][1]),
                      Det(reduced))

ReplaceColumn(M, j, x) ==
    [i \in 1..Len(M) |-> [k \in 1..Len(M) |-> IF k = j THEN x[i] ELSE M[i][k]]]

\* x' Sigma^-1 x, defined where Det(M) is not zero
QuadraticForm(M, x) ==
    RDiv(RSum([i \in 1..Len(M) |-> RMul(x[i], Det(ReplaceColumn(M, i, x)))]), Det(M))

(***************************************************************************)
(* Calls of the correlation functions: the group sizes are those of the    *)
(* database's points, the correlation parameters and the stacked vector    *)
(* are the caller's.                                                       *)
(***************************************************************************)
GroupSizes == 1..MaxGroupSize

WithinCorrelations == {Rat(-1, 2), RInt(0), Rat(1, 10), Rat(1, 5), RInt(1)}

CrossCorrelations == {RInt(0), Rat(1, 20), Rat(1, 2), RInt(1)}

StackedVectors(len) ==
    { [i \in 1..len |-> RInt(1)],
      [i \in 1..len |-> RInt(IF i % 2 = 1 THEN 1 ELSE -1)],
      [i \in 1..len |-> RInt(i)],
      [i \in 1..len |-> RInt(IF i = 1 THEN 1 ELSE 0)] }

InitCorrelation ==
    /\ InitCaches
    /\ \E n \in GroupSizes, m \in GroupSizes :
         \E a \in WithinCorrelations, b \in WithinCorrelations, c \in CrossCorrelations :
           \E x \in StackedVectors(n + m) :
             call = [op |-> "none", m_dop |-> n, m_po4 |-> m, cp |-> <<a, b, c>>,
                     x |-> x, outcome |-> "none", value |-> NoNumber]

CheckRegularity ==
    /\ call' = [call EXCEPT !.op = "check_regularity",
                            !.outcome = check_regularity(call.cp, call.m_dop, call.m_po4),
                            !.value = NoNumber]
    /\ UNCHANGED caches

LnDet ==
    /\ \E r \in {ln_det_correlation_matrix(call.cp, call.m_dop, call.m_po4)} :
         call' = [call EXCEPT !.op = "ln_det_correlation_matrix",
                              !.outcome = r.outcome, !.value = r.value]
    /\ UNCHANGED caches

ProjectedProduct ==
    /\ \E r \in {projected_product_inverse_correlation_matrix_both_sides(
                     project(call.x, call.m_dop), call.cp, call.m_dop, call.m_po4)} :
         call' = [call EXCEPT !.op = "projected_product",
                              !.outcome = r.outcome, !.value = r.value]
    /\ UNCHANGED caches

NextCorrelation == CheckRegularity \/ LnDet \/ ProjectedProduct

SpecCorrelation == InitCorrelation /\ [][NextCorrelation]_vars

\* the sign of (1+(n-1)a)(1+(m-1)b) - n m c^2 for the call's inputs, worked
\* out in integers over the common denominator of a, b and c
RegularityNumerator ==
    LET a == call.cp[1]
        b == call.cp[2]
        c == call.cp[3]
        n == call.m_dop
        m == call.m_po4
    IN  (a[2] + (n - 1) * a[1]) * (b[2] + (m - 1) * b[1]) * c[2] * c[2]
          - n * m * c[1] * c[1] * a[2] * b[2]

CallSigma == Sigma(call.cp, call.m_dop, call.m_po4)

(***************************************************************************)
(* C12  Regularity boundary: check_regularity raises SingularMatrixError   *)
(* if and only if (1+(n-1)a)(1+(m-1)b) - n m c^2 <= 0, the exact zero      *)
(* included; for a strictly positive value it returns without error.       *)
(***************************************************************************)
C12_RegularityBoundary ==
    call.op = "check_regularity"
        => /\ (call.outcome = "SingularMatrixError") <=> (RegularityNumerator <= 0)
           /\ (RegularityNumerator > 0) => (call.outcome = "returned")

\* the factor is exactly zero and the check raised
C12_Witness ==
    /\ call.op = "check_regularity"
    /\ RegularityNumerator = 0
    /\ call.outcome = "SingularMatrixError"

(***************************************************************************)
(* C13  Block-correlation identity: for regular (a, b, c, n, m) and a      *)
(* stacked vector x, the projected product applied to project(x, n)        *)
(* equals x' Sigma^-1 x for the explicit correlation matrix Sigma.         *)
(***************************************************************************)
C13_QuadraticFormIdentity ==
    (/\ call.op = "projected_product"
     /\ call.outcome = "returned"
     /\ Det(CallSigma)[1] # 0)
        => call.value.exp = QuadraticForm(CallSigma, call.x)

C15_CheckedBeforeComputing ==
    call.op \in {"ln_det_correlation_matrix", "projected_product"}
        => /\ (RegularityNumerator <= 0)
                => (call.outcome = "SingularMatrixError" /\ call.value = NoNumber)
           /\ (call.outcome = "returned") => (RegularityNumerator > 0)

\* the projected product refused a triplet that is not regular
C15_Witness ==
    /\ call.op = "projected_product"
    /\ RegularityNumerator < 0
    /\ call.outcome = "SingularMatrixError"
    /\ call.value = NoNumber

(***************************************************************************)
(* Array shapes at the measurement points.  The evaluator is outside the   *)
(* program; between two requests it may turn faulty or sound again.        *)
(***************************************************************************)
EvaluatorChanges ==
    /\ evaluator' \in EvaluatorStates \ {evaluator}
    /\ UNCHANGED <<disk, hdd_mem, par_mem, last, base, call>>

\* requests to the point databases for one parameter vector, with an
\* evaluator that may be faulty
NextShape == WodF \/ WodDFOne \/ TmmF \/ TmmDFOne \/ NewSession \/ EvaluatorChanges

SpecShape == Init /\ [][NextShape]_vars

(***************************************************************************)
(* C16  Shape invariants on returned model outputs: every value f returns  *)
(* has one axis of length m and every value df returns has two axes with   *)
(* first-axis length m, on every path, the one where df returns a freshly  *)
(* recomputed Jacobian included; an array that violates this is never      *)
(* returned.                                                               *)
(***************************************************************************)
C16_ShapeOnReturn ==
    (last.op \in PointOps /\ Returned(last))
        => /\ last.value.len = "m"
           /\ last.value.ndim = (IF last.op \in {"wod.f", "tmm.f"} THEN 1 ELSE 2)

(***************************************************************************)
(* Configuration strings (init_data_base, Family.__init__, the command     *)
(* line of accuracy/save.py).  A string is the sequence of its characters. *)
(***************************************************************************)
MaxMembers == 3

LowerCase == <<"a", "d", "g", "l", "o", "s", "w", "x", "y", "z">>
UpperCase == <<"A", "D", "G", "L", "O", "S", "W", "X", "Y", "Z">>
Digits == {"0", "1", "2", "3", "4", "5", "6", "7", "8", "9"}

\* str.upper
upper(str) ==
    [i \in 1..Len(str) |->
        IF \E k \in 1..Len(LowerCase) : LowerCase[k] = str[i]
        THEN UpperCase[CHOOSE k \in 1..Len(LowerCase) : LowerCase[k] = str[i]]
        ELSE str[i]]

\* str.startswith
startswith(str, prefix) ==
    Len(str) >= Len(prefix) /\ SubSeq(str, 1, Len(prefix)) = prefix

\* str.split(sep) for a separator of one character
RECURSIVE split(_, _)
split(str, sep) ==
    IF \A i \in 1..Len(str) : str[i] # sep THEN <<str>>
    ELSE LET i == CHOOSE k \in 1..Len(str) :
                      str[k] = sep /\ \A j \in 1..(k - 1) : str[j] # sep
         IN  <<SubSeq(str, 1, i - 1)>> \o split(SubSeq(str, i + 1, Len(str)), sep)

\* the strings int() converts: decimal digits after an optional minus sign
IsIntLiteral(str) ==
    LET digits == IF str # << >> /\ str[1] = "-" THEN Tail(str) ELSE str
    IN  digits # << >> /\ \A i \in 1..Len(digits) : digits[i] \in Digits

WOA_str == <<"W", "O", "A">>
WOD_str == <<"W", "O", "D">>
OLDWOD_str == <<"O", "L", "D", "W", "O", "D">>
OLS_str == <<"O", "L", "S">>
WLS_str == <<"W", "L", "S">>
LWLS_str == <<"L", "W", "L", "S">>
GLS_str == <<"G", "L", "S">>

\* what a call ends in: a result, or an exception with the value its message names
Ok(result) == [outcome |-> "ok", names |-> << >>, result |-> result]
Raised(exception, names) == [outcome |-> exception, names |-> names, result |-> << >>]

\* the branch of init_data_base for 'WOD.<int>' and 'OLDWOD.<int>'
init_data_base_TMM(data_kind, prefix, class) ==
    LET data_kind_splitted == split(data_kind, ".")
    IN  IF ~(Len(data_kind_splitted) = 2 /\ data_kind_splitted[1] = prefix)
        THEN Raised("AssertionError", << >>)
        ELSE IF ~IsIntLiteral(data_kind_splitted[2])
        THEN Raised("ValueError", data_kind_splitted[2])
        ELSE Ok(<<class, data_kind_splitted[2]>>)

init_data_base(data_kind) ==
    IF upper(data_kind) = WOA_str THEN Ok(<<"WOA">>)
    ELSE IF upper(data_kind) = WOD_str THEN Ok(<<"WOD">>)
    ELSE IF startswith(upper(data_kind), WOD_str)
    THEN init_data_base_TMM(data_kind, WOD_str, "WOD_TMM")
    ELSE IF startswith(upper(data_kind), OLDWOD_str)
    THEN init_data_base_TMM(data_kind, OLDWOD_str, "OLDWOD_TMM")
    ELSE Raised("ValueError", data_kind)

\* accuracy/save.py: the cost function class and arguments chosen for args.kind
save_main(kind) ==
    LET kind_splitted == split(kind, "_")
        cf_kind == kind_splitted[2]
        cf_kind_splitted == split(cf_kind, ".")
    IN  IF Len(kind_splitted) # 2 THEN Raised("AssertionError", << >>)
        ELSE IF cf_kind = OLS_str THEN Ok(<<"OLS">>)
        ELSE IF cf_kind = WLS_str THEN Ok(<<"WLS">>)
        ELSE IF cf_kind = LWLS_str THEN Ok(<<"LWLS">>)
        ELSE IF startswith(cf_kind, GLS_str)
        THEN IF Len(cf_kind_splitted) < 2 THEN Raised("IndexError", << >>)
             ELSE IF ~IsIntLiteral(cf_kind_splitted[2])
             THEN Raised("ValueError", cf_kind_splitted[2])
             ELSE IF Len(cf_kind_splitted) < 3 THEN Raised("IndexError", << >>)
             ELSE IF ~IsIntLiteral(cf_kind_splitted[3])
             THEN Raised("ValueError", cf_kind_splitted[3])
             ELSE Ok(<<"GLS", cf_kind_splitted[2], cf_kind_splitted[3]>>)
        ELSE Raised("ValueError", cf_kind)

\* argparse, action='store_false': the attribute is True unless the flag is given
store_false(given) == ~given

\* accuracy/save.py, lines 64-73: the confidence computations that run, each
\* with the parallel_mode it is passed
save_calculate(not_parallel, number_of_measurements) ==
    LET parallel_mode == ~not_parallel
    IN  << [fn |-> "model_confidence", parallel_mode |-> parallel_mode],
           [fn |-> "average_model_confidence", parallel_mode |-> parallel_mode] >>
        \o (IF number_of_measurements > 0
            THEN << [fn |-> "average_model_confidence_increase",
                     parallel_mode |-> parallel_mode] >>
            ELSE << >>)

\* the members Family.__init__ constructs, in order: one per entry of
\* additional_arguments of each (member_class, additional_arguments) pair;
\* each member builds a data base of its own, named here by the member's
\* position
RECURSIVE MemberClassesOf(_)
MemberClassesOf(member_classes_list) ==
    IF member_classes_list = << >> THEN << >>
    ELSE [i \in 1..Head(member_classes_list)[2] |-> Head(member_classes_list)[1]]
         \o MemberClassesOf(Tail(member_classes_list))

ConstructMembers(member_classes_list) ==
    LET classes == MemberClassesOf(member_classes_list)
    IN  [i \in 1..Len(classes) |-> [class |-> classes[i], data_base |-> i]]

\* variant: the loop starts one member late
RECURSIVE SetSameDataBase_FromThird(_, _)
SetSameDataBase_FromThird(family, i) ==
    IF i + 1 > Len(family) THEN family
    ELSE SetSameDataBase_FromThird(
             [family EXCEPT ![i + 1].data_base = family[1].data_base], i + 1)

\* for i in range(1, len(family)): family[i].data_base = family[0].data_base
\* (i is the 1-based position of the member the loop is at)
RECURSIVE SetSameDataBase(_, _)
SetSameDataBase(family, i) ==
    IF i > Len(family) THEN family
    ELSE SetSameDataBase([family EXCEPT ![i].data_base = family[1].data_base], i + 1)

Family_init(member_classes, data_kind_argument) ==
    LET data_kind == upper(data_kind_argument)
    IN  IF data_kind \notin DOMAIN member_classes
        THEN Raised("ValueError", data_kind)
        ELSE Ok(SetSameDataBase(ConstructMembers(member_classes[data_kind]), 2))

\* what the function handed to get_function_value returns for its n-th call,
\* made on the member at position member
FunctionValue(member, n) == <<member, n>>

\* Family.get_function_value: invoked lists the positions of the members the
\* function is called on, in the order of the calls
Family_get_function_value(family) ==
    IF family = << >>
    THEN [outcome |-> "IndexError", invoked |-> << >>, value |-> << >>]
    ELSE [outcome |-> "ok",
          invoked |-> <<1>> \o [i \in 1..Len(family) |-> i],
          value |-> FunctionValue(1, 1)]

(***************************************************************************)
(* Calls with configuration strings.                                       *)
(***************************************************************************)
Stems == {WOA_str, <<"w", "o", "a">>, WOD_str, <<"w", "o", "d">>, <<"W", "o", "d">>,
          OLDWOD_str, <<"o", "l", "d", "w", "o", "d">>, <<"X", "Y", "Z">>, << >>}

Suffixes == {<< >>, <<".">>, <<".", "5">>, <<".", "1", "2">>, <<"5">>, <<"X">>,
             <<".", "x">>, <<".", "5", ".", "7">>, <<".", "-", "1">>}

DataKinds == {stem \o suffix : stem \in Stems, suffix \in Suffixes}

CostFunctionKinds ==
    {OLS_str, WLS_str, LWLS_str, GLS_str, <<"o", "l", "s">>, <<"X", "L", "S">>, << >>,
     GLS_str \o <<".", "4", "0">>, GLS_str \o <<".", "4", "0", ".", "3">>,
     GLS_str \o <<".", "4", "0", ".", "-", "1">>, GLS_str \o <<".", "4", "x", ".", "3">>,
     GLS_str \o <<".", "4", "0", ".", "3", ".", "1">>,
     GLS_str \o <<"X", ".", "4", "0", ".", "3">>}

Kinds == {WOD_str \o <<"_">> \o cf_kind : cf_kind \in CostFunctionKinds}
         \cup {WOD_str \o <<"_">> \o OLS_str \o <<"_">> \o OLS_str}

MemberClassesLists ==
    { <<<<"OLS", 1>>>>, <<<<"OLS", 1>>, <<"WLS", 1>>>>, <<<<"GLS", MaxMembers>>>>,
      <<<<"OLS", 1>>, <<"GLS", MaxMembers - 1>>>> }

\* Family.member_classes: empty in Family itself, filled in by its subclasses
MemberClasses ==
    { [data_kind \in {WOA_str, WOD_str} |-> list] : list \in MemberClassesLists }
    \cup { [data_kind \in {} |-> << >>] }

InitConfiguration ==
    /\ InitCaches
    /\ \E argument \in DataKinds \cup Kinds, member_classes \in MemberClasses,
          not_parallel_given \in BOOLEAN, number_of_measurements \in 0..1 :
         call = [op |-> "none", argument |-> argument, member_classes |-> member_classes,
                 not_parallel_given |-> not_parallel_given,
                 number_of_measurements |-> number_of_measurements,
                 outcome |-> "none", names |-> << >>, result |-> << >>,
                 passed |-> << >>, invoked |-> << >>, value |-> << >>]

Called(op, r) ==
    /\ call' = [call EXCEPT !.op = op, !.outcome = r.outcome, !.names = r.names,
                            !.result = r.result, !.passed = << >>,
                            !.invoked = << >>, !.value = << >>]
    /\ UNCHANGED caches

InitDataBase == Called("init_data_base", init_data_base(call.argument))

FamilyInit == Called("Family", Family_init(call.member_classes, call.argument))

\* accuracy/save.py with -k call.argument, with or without -n
SaveMain ==
    \E r \in {save_main(call.argument)} :
      /\ call' = [call EXCEPT
                     !.op = "save", !.outcome = r.outcome, !.names = r.names,
                     !.result = r.result, !.invoked = << >>, !.value = << >>,
                     !.passed = IF r.outcome = "ok"
                                THEN save_calculate(store_false(call.not_parallel_given),
                                                    call.number_of_measurements)
                                ELSE << >>]
      /\ UNCHANGED caches

\* get_function_value on the family just constructed
GetFunctionValue ==
    /\ call.op = "Family"
    /\ call.outcome = "ok"
    /\ \E r \in {Family_get_function_value(call.result)} :
         call' = [call EXCEPT !.op = "get_function_value", !.outcome = r.outcome,
                              !.invoked = r.invoked, !.value = r.value]
    /\ UNCHANGED caches

NextConfiguration == InitDataBase \/ FamilyInit \/ SaveMain \/ GetFunctionValue

SpecConfiguration == InitConfiguration /\ [][NextConfiguration]_vars

\* 'WOA', 'WOD', 'WOD.<int>' or 'OLDWOD.<int>', in any case of the letters
IsDataKind(str) ==
    \/ upper(str) \in {WOA_str, WOD_str}
    \/ \E prefix \in {WOD_str \o <<".">>, OLDWOD_str \o <<".">>} :
         /\ startswith(upper(str), prefix)
         /\ IsIntLiteral(SubSeq(str, Len(prefix) + 1, Len(str)))

\* OLS, WLS, LWLS or GLS.<min_values>.<max_year_diff>
IsCostFunctionKind(str) ==
    \/ str \in {OLS_str, WLS_str, LWLS_str}
    \/ /\ startswith(str, GLS_str \o <<".">>)
       /\ Len(split(str, ".")) = 3
       /\ IsIntLiteral(split(str, ".")[2])
       /\ IsIntLiteral(split(str, ".")[3])

RaisedValueErrorNaming(str) == call.outcome = "ValueError" /\ call.names = str

(***************************************************************************)
(* C17  Unknown configuration strings end in a ValueError that names the   *)
(* unrecognized value: init_data_base for every data_kind that is not      *)
(* 'WOA', 'WOD', 'WOD.<int>' or 'OLDWOD.<int>', Family.__init__ for every   *)
(* data_kind that is not a key of member_classes, and the accuracy command *)
(* line for every cost function kind other than OLS, WLS, LWLS or          *)
(* GLS.<min_values>.<max_year_diff>.                                       *)
(***************************************************************************)
C17_UnknownStringsRaiseValueError ==
    /\ (call.op = "init_data_base" /\ ~IsDataKind(call.argument))
          => RaisedValueErrorNaming(call.argument)
    /\ (call.op = "Family" /\ upper(call.argument) \notin DOMAIN call.member_classes)
          => RaisedValueErrorNaming(upper(call.argument))
    /\ (/\ call.op = "save"
        /\ Len(split(call.argument, "_")) = 2
        /\ ~IsCostFunctionKind(split(call.argument, "_")[2]))
          => RaisedValueErrorNaming(split(call.argument, "_")[2])

(***************************************************************************)
(* C19  Family aliasing: after the construction of a Family with at least  *)
(* one member, every later member's data_base is the very data base of     *)
(* the first member, and the first member's data_base is still the one it  *)
(* constructed itself.                                                     *)
(***************************************************************************)
C19_FamilySharesFirstDataBase ==
    (call.op = "Family" /\ call.outcome = "ok" /\ Len(call.result) >= 1)
        => /\ \A i \in 1..Len(call.result) :
                call.result[i].data_base = call.result[1].data_base
           /\ call.result[1].data_base = ConstructMembers(
                  call.member_classes[upper(call.argument)])[1].data_base

\* a family of more than two members of two classes was constructed
C19_Witness ==
    /\ call.op = "Family"
    /\ call.outcome = "ok"
    /\ Len(call.result) > 2
    /\ call.result[1].class # call.result[Len(call.result)].class
    /\ \A i \in 1..Len(call.result) : call.result[i].data_base = 1

(***************************************************************************)
(* C22  Family.get_function_value applies the function uniformly: it calls *)
(* the function exactly once on each member of the family and returns a    *)
(* value the function produced for the first member.                       *)
(***************************************************************************)
C22_OnceOnEachMember ==
    (call.op = "get_function_value" /\ call.outcome = "ok")
        => /\ \A member \in 1..Len(call.result) :
                Cardinality({n \in 1..Len(call.invoked) : call.invoked[n] = member}) = 1
           /\ \E n \in 1..Len(call.invoked) :
                call.invoked[n] = 1 /\ call.value = FunctionValue(1, n)

(***************************************************************************)
(* C23  The command line's parallel/serial toggle: with -n / --not_parallel *)
(* the confidence computations are passed parallel_mode = False, without    *)
(* it they are passed parallel_mode = True.                                 *)
(***************************************************************************)
C23_NotParallelRunsSerially ==
    (call.op = "save" /\ call.outcome = "ok")
        => \A i \in 1..Len(call.passed) :
              call.passed[i].parallel_mode = ~call.not_parallel_given

(***************************************************************************)
(* C29  init_data_base reads the data kind case-insensitively: whenever    *)
(* the upper-case spelling of the argument is accepted, the argument       *)
(* itself is accepted and yields the same class with the same              *)
(* max_land_boxes.                                                         *)
(***************************************************************************)
C29_AnyCaseSameDataBase ==
    (call.op = "init_data_base" /\ init_data_base(upper(call.argument)).outcome = "ok")
        => /\ call.outcome = "ok"
           /\ call.result = init_data_base(upper(call.argument)).result

(***************************************************************************)
(* Accessors of a data base whose class leaves calculations to DataBase    *)
(* and WOD_Base.                                                           *)
(***************************************************************************)
InitAbstract ==
    /\ InitStores
    /\ \E implemented \in SUBSET Calculations : base = NewDataBase(implemented)
    /\ call = [op |-> "none", outcome |-> "none", value |-> NoValue, again |-> FALSE]

Accessed(op, r) ==
    /\ base' = r.b
    /\ call' = [op |-> op, outcome |-> r.outcome, value |-> r.value,
                again |-> call.op = op]
    /\ UNCHANGED stores

BaseF == \E key \in OneKey : \E r \in {base_f(base, key)} : Accessed("f", r)

BaseDF == \E key \in OneKey : \E r \in {base_df(base, key)} : Accessed("df", r)

BaseResults == \E r \in {base_results(base)} : Accessed("results", r)

BaseDeviations == \E r \in {base_deviations(base)} : Accessed("deviations", r)

BaseCorrelationMatrix ==
    \E r \in {base_correlation_matrix(base)} : Accessed("correlation_matrix", r)

BaseCholesky ==
    \E r \in {base_correlation_matrix_cholesky_decomposition(base)} :
        Accessed("correlation_matrix_cholesky_decomposition", r)

NextAbstract ==
    BaseF \/ BaseDF \/ BaseResults \/ BaseDeviations \/ BaseCorrelationMatrix
    \/ BaseCholesky

SpecAbstract == InitAbstract /\ [][NextAbstract]_vars

\* the calculation behind an accessor, and where its value is cached
CalculationOf(op) == IF op = "none" THEN "none" ELSE op \o "_calculate"

CachedBy(op) ==
    IF op \in {"f", "df"}
    THEN \E key \in Keys : MemLoad(base.par, key, IF op = "f" THEN "F" ELSE "DF") # NoValue
    ELSE base.memory_cache[op] # NoValue

(***************************************************************************)
(* C18  Unimplemented abstract operation: on a data base whose class does  *)
(* not override a calculation, every invocation of the corresponding       *)
(* accessor raises NotImplementedError and returns no value, the first     *)
(* and every later one, and no value for it is ever cached.                *)
(***************************************************************************)
C18_UnimplementedRaisesEveryTime ==
    /\ (call.op # "none" /\ CalculationOf(call.op) \notin base.implemented)
          => (call.outcome = "NotImplementedError" /\ call.value = NoValue)
    /\ \A op \in {"f", "df", "results", "deviations", "correlation_matrix",
                  "correlation_matrix_cholesky_decomposition"} :
          CalculationOf(op) \notin base.implemented => ~CachedBy(op)

\* the same accessor raised NotImplementedError twice in a row, on a data
\* base that has other values cached
C18_Witness ==
    /\ call.op = "deviations"
    /\ call.again
    /\ call.outcome = "NotImplementedError"
    /\ "deviations_calculate" \notin base.implemented
    /\ base.memory_cache["results"] # NoValue

(***************************************************************************)
(* A client of tmm that switches between parameter vectors within one      *)
(* process.  call.log lists its requests in order and call.f_calls counts  *)
(* the invocations of tmm.f_calculate.                                     *)
(***************************************************************************)
InitMemory ==
    /\ InitCaches
    /\ call = [op |-> "requests", log |-> << >>, f_calls |-> 0]

Logged(op, key, r) ==
    /\ disk' = r.st.disk
    /\ hdd_mem' = r.st.mem
    /\ par_mem' = r.par
    /\ call' = [call EXCEPT !.log = Append(call.log, [op |-> op, key |-> key]),
                            !.f_calls = call.f_calls
                               + Len(SelectSeq(r.calls, LAMBDA c : c.fn = "f_calculate"))]
    /\ UNCHANGED <<evaluator, base>>

VectorF ==
    /\ Len(call.log) < MaxRequests
    /\ \E key \in Vectors :
         \E promote \in Promotes(HddState, key, F_cache_filename) :
           \E r \in {DataBase_f(HddState, par_mem, key, promote)} :
             /\ last' = Request("tmm.f", key, 0, 0, r)
             /\ Logged("f", key, r)

\* df for parameter vectors of one length
VectorDF ==
    /\ Len(call.log) < MaxRequests
    /\ \E key \in Vectors :
         \E promote \in Promotes(HddState, key, DF_cache_filename) :
           \E r \in {DataBase_df(HddState, par_mem, key, MaxParams, promote)} :
             /\ last' = Request("tmm.df", key, MaxParams, 0, r)
             /\ Logged("df", key, r)

NextMemory == VectorF \/ VectorDF

SpecMemory == InitMemory /\ [][NextMemory]_vars

\* request i is an f request that finds F resident: an earlier f request for
\* the same vector, with no request for another vector in between
FindsResident(log, i) ==
    \E j \in 1..(i - 1) :
        /\ log[j] = [op |-> "f", key |-> log[i].key]
        /\ \A k \in j..i : log[k].key = log[i].key

(***************************************************************************)
(* C20  The parameter-scoped memory tier holds the entries of one          *)
(* parameter vector, the most recently requested one: a request for        *)
(* another vector supersedes them, so an f request invokes f_calculate     *)
(* unless f was requested for the same vector before with no other vector  *)
(* in between; f(p1), f(p2), f(p1) with p1 # p2 invokes it three times.    *)
(***************************************************************************)
C20_OneResidentVector ==
    (call.op = "requests" /\ call.log # << >>)
        => /\ par_mem.last = call.log[Len(call.log)].key
           /\ \A name \in MemNames :
                par_mem.entries[name] # NoValue
                   => par_mem.entries[name].key = par_mem.last
           /\ call.f_calls = Cardinality({i \in 1..Len(call.log) :
                                 call.log[i].op = "f" /\ ~FindsResident(call.log, i)})

\* f(p1), f(p2), f(p1) invoked f_calculate three times
C20_Witness ==
    /\ call.op = "requests"
    /\ Len(call.log) = 3
    /\ \A i \in 1..3 : call.log[i].op = "f"
    /\ call.log[1].key # call.log[2].key
    /\ call.log[3].key = call.log[1].key
    /\ call.f_calls = 3
    /\ par_mem.last = call.log[1].key

(***************************************************************************)
(* Requests to wod across processes.  A new process starts with empty      *)
(* memory tiers and finds the persistent tier as the previous process left *)
(* it; last keeps the previous process's final request for comparison.     *)
(***************************************************************************)
NewProcess ==
    /\ last.op # "none"
    /\ hdd_mem' = EmptyMem(Filenames)
    /\ par_mem' = EmptyMem(MemNames)
    /\ UNCHANGED <<disk, last, aside>>

NextProcesses == WodF \/ WodDF \/ NewProcess

SpecProcesses == Init /\ [][NextProcesses]_vars

HddOps == {"wod.f", "wod.df"}

\* the file a request l of wod reads and the evaluator's output for it
PointFile(l) == IF l.op = "wod.f" THEN F_cache_filename ELSE DF_cache_filename

PointCalculated(l) ==
    IF l.op = "wod.f" THEN WOD_f_calculate(l.key) ELSE WOD_df_calculate(l.key, l.p)

\* the request l missed every tier and computed
ComputedOnMiss(l) ==
    /\ l.op \in HddOps
    /\ l.tier = "computed"
    /\ ~FoundCached(l)
    /\ Len(l.calls) = 1

(***************************************************************************)
(* C21  Write-through on compute.  When a request f(p) or df(p) to wod     *)
(* misses every tier and computes, the computed payload is in the memory   *)
(* tier and in the persistent tier when the request returns; when the same *)
(* request is then issued in a process whose memory tier is empty, it is   *)
(* served from the persistent tier with the same payload and without a     *)
(* call of the calculate function.                                         *)
(***************************************************************************)
C21_WriteThroughOnCompute ==
    [][ /\ (last' # last /\ ComputedOnMiss(last'))
            => /\ disk'[last'.key][PointFile(last')] = PointCalculated(last')
               /\ MemLoad(hdd_mem', last'.key, PointFile(last')) = PointCalculated(last')
               /\ Returned(last')
               /\ last'.value = PointCalculated(last')
        /\ (ComputedOnMiss(last) /\ hdd_mem = EmptyMem(Filenames) /\ SameRequestAgain)
            => /\ last'.tier = "persistent"
               /\ last'.calls = << >>
               /\ last'.saves = 0
               /\ Returned(last')
               /\ last'.value = last.value ]_vars

\* a new process has just been served the Jacobian from the persistent tier
C21_Witness ==
    /\ last.op = "wod.df"
    /\ last.tier = "persistent"
    /\ last.calls = << >>
    /\ Returned(last)
    /\ last.value = WOD_df_calculate(last.key, last.p)

(***************************************************************************)
(* The legacy data bases OLDWOD and OLDWOD_TMM and the Cholesky factors    *)
(* they load.  base is [class, max_land_boxes, memory_cache], where        *)
(* memory_cache maps the formatted name of an accessor call to the cached  *)
(* value.  An argument left out of a call takes the default of the         *)
(* function's signature.                                                   *)
(***************************************************************************)
LegacyClasses == {"OLDWOD", "OLDWOD_TMM"}

\* positive_definite_approximation_min_diag_value: 0.01, 0.1 and another value
HistoricalMinDiag == Rat(1, 100)
AccessorMinDiag == Rat(1, 10)
MinDiags == {HistoricalMinDiag, AccessorMinDiag, Rat(1, 2)}
MinMeasurements == {30, 35, 40}
LandBoxes == 0..1

\* an argument left out of a call
Omitted == << >>

Default(given, default) == IF given = Omitted THEN default ELSE given

\* the artifact util.io.object.load reads from the file of lines 683 / 700
CholeskyArtifact(b, min_measurements) ==
    [kind |-> "cholesky_factors",
     file |-> IF b.class = "OLDWOD" THEN <<"all/pw", min_measurements>>
              ELSE <<"all/pw_nearest_lsm_tmm", b.max_land_boxes, min_measurements>>]

\* OLDWOD / OLDWOD_TMM.correlation_matrix_cholesky_decomposition_calculate
OLD_correlation_matrix_cholesky_decomposition_calculate(b, min_measurements, min_diag) ==
    LET positive_definite_approximation_min_diag_value ==
            Default(min_diag, HistoricalMinDiag)
    IN  IF positive_definite_approximation_min_diag_value # HistoricalMinDiag
        THEN [b |-> b, outcome |-> "NotImplementedError", value |-> NoValue]
        ELSE [b |-> b, outcome |-> "ok", value |-> CholeskyArtifact(b, min_measurements)]

\* WOD_Base.correlation_matrix_cholesky_decomposition, inherited by both classes
WOD_Base_correlation_matrix_cholesky_decomposition(b, min_measurements, min_diag) ==
    LET positive_definite_approximation_min_diag_value ==
            Default(min_diag, AccessorMinDiag)
        name == <<"correlation_matrix_cholesky_decomposition", min_measurements,
                  positive_definite_approximation_min_diag_value>>
        c == OLD_correlation_matrix_cholesky_decomposition_calculate(
                 b, min_measurements, positive_definite_approximation_min_diag_value)
    IN  IF name \in DOMAIN b.memory_cache
        THEN [b |-> b, outcome |-> "ok", value |-> b.memory_cache[name]]
        ELSE IF c.outcome # "ok" THEN c
        ELSE [b |-> [b EXCEPT !.memory_cache =
                        [n \in DOMAIN b.memory_cache \cup {name} |->
                            IF n = name THEN c.value ELSE b.memory_cache[n]]],
              outcome |-> "ok", value |-> c.value]

InitLegacy ==
    /\ InitStores
    /\ \E class \in LegacyClasses, max_land_boxes \in LandBoxes :
         /\ class = "OLDWOD" => max_land_boxes = 0
         /\ base = [class |-> class, max_land_boxes |-> max_land_boxes,
                    memory_cache |-> << >>]
    /\ call = [op |-> "none", min_measurements |-> 0, min_diag |-> Omitted,
               outcome |-> "none", value |-> NoValue]

LegacyCalled(op, min_measurements, min_diag, r) ==
    /\ base' = r.b
    /\ call' = [op |-> op, min_measurements |-> min_measurements,
                min_diag |-> min_diag, outcome |-> r.outcome, value |-> r.value]
    /\ UNCHANGED stores

CholeskyCalculate ==
    \E min_measurements \in MinMeasurements, min_diag \in MinDiags \cup {Omitted} :
      LegacyCalled("calculate", min_measurements, min_diag,
          OLD_correlation_matrix_cholesky_decomposition_calculate(
              base, min_measurements, min_diag))

CholeskyAccessor ==
    \E min_measurements \in MinMeasurements, min_diag \in MinDiags \cup {Omitted} :
      LegacyCalled("accessor", min_measurements, min_diag,
          WOD_Base_correlation_matrix_cholesky_decomposition(
              base, min_measurements, min_diag))

NextLegacy == CholeskyCalculate \/ CholeskyAccessor

SpecLegacy == InitLegacy /\ [][NextLegacy]_vars

(***************************************************************************)
(* C24  The Cholesky factors of the legacy data bases: a call raises       *)
(* NotImplementedError if and only if it is given a                        *)
(* positive_definite_approximation_min_diag_value other than 0.01, and     *)
(* loads the artifact otherwise, whether the calculate function is called  *)
(* itself or reached through the cached accessor; a call of the accessor   *)
(* with min_measurements only succeeds.                                    *)
(***************************************************************************)
C24_LegacyCholesky ==
    call.op \in {"calculate", "accessor"}
        => IF call.min_diag \in {Omitted, HistoricalMinDiag}
           THEN /\ call.outcome = "ok"
                /\ call.value = CholeskyArtifact(base, call.min_measurements)
           ELSE call.outcome = "NotImplementedError"

(***************************************************************************)
(* The point data of WOD and WOD_TMM.  The measurements are external: pw   *)
(* holds the number of points of each tracer, the number of results and    *)
(* deviations the measurement package hands out, and the near-water mask   *)
(* of each tracer.  Element i of a quantity is the pair of the quantity's  *)
(* name and i, so that a filtered array shows which elements it kept.  A   *)
(* db is [class, pw]; the memory caches only keep what a calculation       *)
(* yielded from the fixed measurements, so an accessor is modelled by its  *)
(* calculation and its assertions.                                         *)
(***************************************************************************)
MaxPoints == 2

Value(v) == [outcome |-> "ok", value |-> v]
Raise(exception) == [outcome |-> exception, value |-> << >>]

\* evaluate r, then F on its value, unless r raised
Then(r, F(_)) == IF r.outcome # "ok" THEN r ELSE F(r.value)

Measured(name, n) == [i \in 1..n |-> <<name, i>>]

\* a[mask] for a boolean mask: the elements at the true positions, in order
RECURSIVE Select(_, _)
Select(a, mask) ==
    IF a = << >> THEN << >>
    ELSE (IF Head(mask) THEN <<Head(a)>> ELSE << >>) \o Select(Tail(a), Tail(mask))

BooleanIndex(a, mask) ==
    IF Len(a) # Len(mask) THEN Raise("IndexError") ELSE Value(Select(a, mask))

\* WOD_TMM.points_near_water_mask and points_near_water_mask_concatenated
points_near_water_mask(db) == <<db.pw.mask_dop, db.pw.mask_po4>>
points_near_water_mask_concatenated(db) == db.pw.mask_dop \o db.pw.mask_po4

\* the inner WOD of a WOD_TMM
InnerWOD(db) == [db EXCEPT !.class = "WOD"]

\* WOD.points_calculate / WOD_TMM.points_calculate
points_calculate(db) ==
    LET all == <<Measured("dop", db.pw.dop), Measured("po4", db.pw.po4)>>
    IN  IF db.class = "WOD" THEN Value(all)
        ELSE Then(BooleanIndex(all[1], points_near_water_mask(db)[1]), LAMBDA dop :
             Then(BooleanIndex(all[2], points_near_water_mask(db)[2]), LAMBDA po4 :
                Value(<<dop, po4>>)))

\* WOD_Base.m_dop, WOD_Base.m_po4
m_dop(db) == Then(points_calculate(db), LAMBDA points : Value(Len(points[1])))
m_po4(db) == Then(points_calculate(db), LAMBDA points : Value(Len(points[2])))

\* WOD.results_calculate / WOD_TMM.results_calculate
results_calculate(db) ==
    IF db.class = "WOD" THEN Value(Measured("results", db.pw.results))
    ELSE BooleanIndex(Measured("results", db.pw.results),
                      points_near_water_mask_concatenated(db))

\* DataBase.m
DataBase_m(db) == Then(results_calculate(db), LAMBDA results : Value(Len(results)))

\* WOD_Base.m: assert self.m_dop + self.m_po4
WOD_Base_m(db) ==
    Then(DataBase_m(db), LAMBDA m :
    Then(m_dop(db), LAMBDA dop :
    Then(m_po4(db), LAMBDA po4 :
        IF dop + po4 # 0 THEN Value(m) ELSE Raise("AssertionError"))))

\* assert len(values) == self.m
AssertLenM(db, values) ==
    Then(WOD_Base_m(db), LAMBDA m :
        IF Len(values) = m THEN Value(values) ELSE Raise("AssertionError"))

\* variant of WOD_TMM.deviations_calculate: filtered with the mask of one tracer
deviations_calculate_OneTracer(db) ==
    IF db.class = "WOD" THEN Value(Measured("deviations", db.pw.deviations))
    ELSE BooleanIndex(Measured("deviations", db.pw.deviations),
                      points_near_water_mask(db)[1] \o [i \in 1..db.pw.po4 |-> TRUE])

\* WOD.deviations_calculate / WOD_TMM.deviations_calculate
deviations_calculate(db) ==
    IF db.class = "WOD" THEN Value(Measured("deviations", db.pw.deviations))
    ELSE BooleanIndex(Measured("deviations", db.pw.deviations),
                      points_near_water_mask_concatenated(db))

\* DataBase.deviations
DataBase_deviations(db) ==
    Then(deviations_calculate(db), LAMBDA values : AssertLenM(db, values))

\* WOD.f_calculate: the evaluator's output, one value for each point
f_points(db, key) == Measured(<<"f", key>>, db.pw.dop + db.pw.po4)

\* WOD.df_calculate: one row of p partial derivatives for each point
df_points(db, key, p) ==
    [i \in 1..(db.pw.dop + db.pw.po4) |-> [j \in 1..p |-> <<"df", key, i, j>>]]

\* DataBaseHDD.f of a WOD, DataBase.f of a WOD_TMM
RECURSIVE Points_f(_, _)
Points_f(db, key) ==
    IF db.class = "WOD" THEN AssertLenM(db, f_points(db, key))
    ELSE Then(Points_f(InnerWOD(db), key), LAMBDA f :
         Then(BooleanIndex(f, points_near_water_mask_concatenated(db)), LAMBDA values :
            AssertLenM(db, values)))

\* DataBaseHDD.df of a WOD, DataBase.df of a WOD_TMM, for a Jacobian computed
\* for the requested parameters
RECURSIVE Points_df(_, _, _)
Points_df(db, key, p) ==
    IF db.class = "WOD" THEN AssertLenM(db, df_points(db, key, p))
    ELSE Then(Points_df(InnerWOD(db), key, p), LAMBDA df :
         Then(BooleanIndex(df, points_near_water_mask_concatenated(db)), LAMBDA rows :
            AssertLenM(db, rows)))

\* the attributes of a point data base that take the parameters; any other
\* name is not an attribute of the class or of its base classes
CallAttribute(db, name, key) ==
    IF name = "f" THEN Points_f(db, key)
    ELSE Raise("AttributeError")

\* results - model output, elementwise, and the division by the deviations
Minus(x, y) == [i \in 1..Len(x) |-> [minus |-> <<x[i], y[i]>>]]
Over(x, y) == [i \in 1..Len(x) |-> [over |-> <<x[i], y[i]>>]]

\* WOD.diff: diff = self.results - self.F(parameters)
WOD_diff(db, key, normalize_with_deviation) ==
    Then(results_calculate(db), LAMBDA results :
    Then(CallAttribute(db, "F", key), LAMBDA F :
        IF normalize_with_deviation
        THEN Then(DataBase_deviations(db), LAMBDA deviations :
                 Value(Over(Minus(results, F), deviations)))
        ELSE Value(Minus(results, F))))

Masks(n) == [1..n -> BOOLEAN]

InitPoints ==
    /\ InitStores
    /\ \E dop \in 0..MaxPoints, po4 \in 0..MaxPoints, surplus \in 0..1 :
         \E mask_dop \in Masks(dop), mask_po4 \in Masks(po4) :
           base = [dop |-> dop, po4 |-> po4, results |-> dop + po4 + surplus,
                   deviations |-> dop + po4,
                   mask_dop |-> mask_dop, mask_po4 |-> mask_po4]
    /\ call = [op |-> "none", class |-> "none", key |-> 0, p |-> 0,
               normalize |-> FALSE, outcome |-> "none", value |-> << >>]

PointClasses == {"WOD", "WOD_TMM"}

PointsCalled(op, class, key, p, normalize, r) ==
    /\ call' = [op |-> op, class |-> class, key |-> key, p |-> p,
                normalize |-> normalize, outcome |-> r.outcome, value |-> r.value]
    /\ UNCHANGED caches

PointsM ==
    \E class \in PointClasses :
      PointsCalled("m", class, 0, 0, FALSE, WOD_Base_m([class |-> class, pw |-> base]))

PointsMDop ==
    \E class \in PointClasses :
      PointsCalled("m_dop", class, 0, 0, FALSE, m_dop([class |-> class, pw |-> base]))

PointsMPo4 ==
    \E class \in PointClasses :
      PointsCalled("m_po4", class, 0, 0, FALSE, m_po4([class |-> class, pw |-> base]))

PointsResults ==
    \E class \in PointClasses :
      PointsCalled("results", class, 0, 0, FALSE,
                   results_calculate([class |-> class, pw |-> base]))

PointsDeviations ==
    \E class \in PointClasses :
      PointsCalled("deviations", class, 0, 0, FALSE,
                   DataBase_deviations([class |-> class, pw |-> base]))

PointsF ==
    \E class \in PointClasses, key \in Keys :
      PointsCalled("f", class, key, 0, FALSE, Points_f([class |-> class, pw |-> base], key))

PointsDF ==
    \E class \in PointClasses, key \in Keys, p \in PCounts :
      PointsCalled("df", class, key, p, FALSE,
                   Points_df([class |-> class, pw |-> base], key, p))

PointsDiff ==
    \E key \in Keys, normalize \in BOOLEAN :
      PointsCalled("diff", "WOD", key, 0, normalize,
                   WOD_diff([class |-> "WOD", pw |-> base], key, normalize))

NextPoints ==
    \/ PointsM \/ PointsMDop \/ PointsMPo4 \/ PointsResults \/ PointsDeviations
    \/ PointsF \/ PointsDF \/ PointsDiff

SpecPoints == InitPoints /\ [][NextPoints]_vars

\* the data base the last call was made on
CalledOn == [class |-> call.class, pw |-> base]

\* the number of points the near-water masks keep
NearWater(mask) == Cardinality({i \in 1..Len(mask) : mask[i]})

\* the two group sizes of the data base the last call was made on
GroupSizesSum ==
    IF call.class = "WOD" THEN base.dop + base.po4
    ELSE NearWater(base.mask_dop) + NearWater(base.mask_po4)

(***************************************************************************)
(* C26  The observation counts of a point data base are consistent: m      *)
(* returns a value only if that value is m_dop + m_po4, and a total that   *)
(* differs from the sum of the two group sizes ends in an assertion        *)
(* failure.                                                                *)
(***************************************************************************)
C26_ObservationCountsConsistent ==
    call.op = "m"
        => /\ call.outcome = "ok" => call.value = GroupSizesSum
           /\ (/\ results_calculate(CalledOn).outcome = "ok"
               /\ Len(results_calculate(CalledOn).value) # GroupSizesSum)
                  => call.outcome = "AssertionError"

\* the measurement package hands out one result for each point
Consistent == base.results = base.dop + base.po4

(***************************************************************************)
(* C28  WOD.diff(parameters) completes without error whenever the model    *)
(* output and the deviations are available, and returns results minus      *)
(* f(parameters), divided elementwise by the deviations when               *)
(* normalize_with_deviation is true.                                       *)
(***************************************************************************)
C28_DiffReturnsResultsMinusF ==
    (/\ call.op = "diff"
     /\ Points_f(CalledOn, call.key).outcome = "ok"
     /\ DataBase_deviations(CalledOn).outcome = "ok")
        => /\ call.outcome = "ok"
           /\ call.value =
                IF call.normalize
                THEN Over(Minus(results_calculate(CalledOn).value,
                                Points_f(CalledOn, call.key).value),
                          DataBase_deviations(CalledOn).value)
                ELSE Minus(results_calculate(CalledOn).value,
                           Points_f(CalledOn, call.key).value)

\* the positions a mask keeps, in increasing order
RECURSIVE KeptPositions(_, _)
KeptPositions(mask, from) ==
    IF from > Len(mask) THEN << >>
    ELSE (IF mask[from] THEN <<from>> ELSE << >>) \o KeptPositions(mask, from + 1)

\* the full array restricted to the positions the mask keeps
Restricted(full, mask) ==
    [j \in 1..Len(KeptPositions(mask, 1)) |-> full[KeptPositions(mask, 1)[j]]]

\* the quantity of the inner WOD that the last call's quantity is taken from
FullQuantity ==
    IF call.op = "results" THEN results_calculate(InnerWOD(CalledOn))
    ELSE IF call.op = "deviations" THEN DataBase_deviations(InnerWOD(CalledOn))
    ELSE IF call.op = "f" THEN Points_f(InnerWOD(CalledOn), call.key)
    ELSE Points_df(InnerWOD(CalledOn), call.key, call.p)

(***************************************************************************)
(* C30  WOD_TMM filters every per-observation quantity with the same       *)
(* near-water mask: results, deviations, f(parameters) and the rows of     *)
(* df(parameters) are the quantities of the full WOD restricted by the     *)
(* concatenated mask, the points of each tracer are restricted by that     *)
(* tracer's mask, and so the lengths of results, deviations, f and df and  *)
(* the sum m_dop + m_po4 all equal the number of true mask entries.  With  *)
(* consistent measurements and at least one point near water, each of      *)
(* these quantities is returned.                                           *)
(***************************************************************************)
C30_SameMaskEverywhere ==
    call.class = "WOD_TMM"
        => /\ (call.op \in {"results", "deviations", "f", "df"} /\ call.outcome = "ok")
                => /\ FullQuantity.outcome = "ok"
                   /\ call.value = Restricted(FullQuantity.value,
                                              base.mask_dop \o base.mask_po4)
                   /\ Len(call.value) = NearWater(base.mask_dop \o base.mask_po4)
                   /\ Len(call.value) = GroupSizesSum
           /\ call.op = "m_dop"
                => call.outcome = "ok" /\ call.value = NearWater(base.mask_dop)
           /\ call.op = "m_po4"
                => call.outcome = "ok" /\ call.value = NearWater(base.mask_po4)
           /\ (call.op = "m" /\ call.outcome = "ok")
                => call.value = NearWater(base.mask_dop \o base.mask_po4)
           /\ (/\ call.op \in {"m", "results", "deviations", "f", "df"}
               /\ Consistent
               /\ GroupSizesSum > 0)
                => call.outcome = "ok"

\* the Jacobian of a WOD_TMM whose mask drops a point of one tracer and keeps
\* a point of each
C30_Witness ==
    /\ call.class = "WOD_TMM"
    /\ call.op = "df"
    /\ call.outcome = "ok"
    /\ NearWater(base.mask_dop) > 0
    /\ NearWater(base.mask_po4) > 0
    /\ Len(call.value) < base.dop + base.po4
    /\ Len(call.value) = NearWater(base.mask_dop) + NearWater(base.mask_po4)

(***************************************************************************)
(* The box data of WOA.  A box array maps each cell, a pair of a time      *)
(* index and a depth layer, to a number; layers from ANNUAL_THRESHOLD_INDEX *)
(* on hold annual values.  The measurements are external: base.box holds   *)
(* the means and the observation counts of the cells.  base.memory_cache   *)
(* is the data base's util.cache.MemoryCache: a lookup hands out the       *)
(* cached array itself, so an assignment into that array is an assignment  *)
(* into the cache entry.  Numbers are exact rationals, with Infinity and    *)
(* NotANumber for np.inf and np.nan.                                       *)
(***************************************************************************)
NumTimes == 2
ANNUAL_THRESHOLD_INDEX == 2

Times == 1..NumTimes
Layers == 1..ANNUAL_THRESHOLD_INDEX
Cells == Times \X Layers

Infinity == <<1, 0>>
NotANumber == <<0, 0>>
IsFinite(x) == x[2] # 0

NoArray == << >>

\* np.average of the numbers xs
Average(xs) ==
    IF \E i \in 1..Len(xs) : xs[i] = NotANumber THEN NotANumber
    ELSE IF \E i \in 1..Len(xs) : xs[i] = Infinity THEN Infinity
    ELSE RDiv(RSum(xs), RInt(Len(xs)))

\* x * annual_factor for a positive factor
Times_factor(x, annual_factor) == IF IsFinite(x) THEN RMul(x, annual_factor) ELSE x

\* WOA.mask: measurements.all.box.data.nobs() > 0
WOA_mask(b) == [cell \in Cells |-> b.box.nobs[cell] > 0]

\* WOA.results_boxes: the cached array, measurements.all.box.data.means() on a miss
WOA_results_boxes(b) ==
    IF b.memory_cache.results_boxes # NoArray
    THEN [b |-> b, value |-> b.memory_cache.results_boxes]
    ELSE [b |-> [b EXCEPT !.memory_cache.results_boxes = b.box.means],
          value |-> b.box.means]

\* the elements of data at the cells of the layer that pass the filter, in the
\* order of the cells
RECURSIVE MonthlyFrom(_, _, _)
MonthlyFrom(data, mask, t) ==
    IF t > NumTimes THEN << >>
    ELSE (IF mask[<<t, 1>>] THEN <<data[<<t, 1>>]>> ELSE << >>)
         \o MonthlyFrom(data, mask, t + 1)

\* WOA._get_data_with_annual_averaged
get_data_with_annual_averaged(b, data, annual_factor) ==
    LET data_monthly == MonthlyFrom(data, WOA_mask(b), 1)
        averaged == Average([t \in Times |-> data[<<t, ANNUAL_THRESHOLD_INDEX>>]])
        data_annual == IF WOA_mask(b)[<<1, ANNUAL_THRESHOLD_INDEX>>]
                       THEN <<Times_factor(averaged, annual_factor)>>
                       ELSE << >>
    IN  data_monthly \o data_annual

\* WOA.results_calculate
WOA_results_calculate(b) ==
    Bind(WOA_results_boxes(b), LAMBDA r :
        [b |-> r.b, value |-> get_data_with_annual_averaged(r.b, r.value, RInt(1))])

\* WOA.diff_boxes: results_boxes is the array the memory cache holds, and
\* results_boxes[np.logical_not(self.mask)] = no_data_value assigns into it
WOA_diff_boxes(b, st, key, normalize_with_deviation, no_data_value, promote) ==
    Bind(WOA_results_boxes(b), LAMBDA r :
    Bind(f_boxes(st, key, DEFAULT_BOXES_T_DIM, promote), LAMBDA f :
        LET results_boxes ==
                [cell \in Cells |-> IF ~WOA_mask(r.b)[cell] THEN no_data_value
                                    ELSE r.value[cell]]
        IN  [b |-> [r.b EXCEPT !.memory_cache.results_boxes = results_boxes],
             st |-> f.st,
             outcome |-> f.outcome,
             value |-> IF f.outcome # "ok" THEN NoArray
                       ELSE [results |-> results_boxes, f_boxes |-> f.value,
                             normalized |-> normalize_with_deviation]]))

\* what the measurement package reports for a cell: some observations with
\* their mean, or none
CellData ==
    {[nobs |-> 1, mean |-> RInt(1)], [nobs |-> 3, mean |-> RInt(2)],
     [nobs |-> 0, mean |-> NotANumber], [nobs |-> 0, mean |-> RInt(0)]}

NoDataValues == {Infinity, RInt(0)}

InitBoxData ==
    /\ InitStores
    /\ \E data \in [Cells -> CellData] :
         base = [box |-> [means |-> [cell \in Cells |-> data[cell].mean],
                          nobs |-> [cell \in Cells |-> data[cell].nobs]],
                 memory_cache |-> [results_boxes |-> NoArray]]
    /\ call = [op |-> "none", outcome |-> "none", value |-> NoArray]

DiffBoxes ==
    \E key \in OneKey, normalize \in BOOLEAN, no_data_value \in NoDataValues :
      \E promote \in Promotes(HddState, key, f_boxes_cache_filename(DEFAULT_BOXES_T_DIM)) :
        \E r \in {WOA_diff_boxes(base, HddState, key, normalize, no_data_value, promote)} :
          /\ base' = r.b
          /\ disk' = r.st.disk
          /\ hdd_mem' = r.st.mem
          /\ call' = [op |-> "diff_boxes", outcome |-> r.outcome, value |-> r.value]
          /\ UNCHANGED <<par_mem, last, evaluator>>

ResultsBoxes ==
    \E r \in {WOA_results_boxes(base)} :
      /\ base' = r.b
      /\ call' = [op |-> "results_boxes", outcome |-> "ok", value |-> r.value]
      /\ UNCHANGED stores

ResultsCalculate ==
    \E r \in {WOA_results_calculate(base)} :
      /\ base' = r.b
      /\ call' = [op |-> "results_calculate", outcome |-> "ok", value |-> r.value]
      /\ UNCHANGED stores

NextBoxData == DiffBoxes \/ ResultsBoxes \/ ResultsCalculate

SpecBoxData == InitBoxData /\ [][NextBoxData]_vars

(***************************************************************************)
(* C27  WOA.diff_boxes only reads the cached state: a call of diff_boxes,  *)
(* with any no_data_value, leaves the results_boxes array of the memory    *)
(* cache as it was, so results_boxes and results_calculate return after    *)
(* the call what they would have returned before it.                       *)
(***************************************************************************)
C27_DiffBoxesReadsOnly ==
    [][ call'.op = "diff_boxes"
            => /\ WOA_results_boxes(base').value = WOA_results_boxes(base).value
               /\ WOA_results_calculate(base').value = WOA_results_calculate(base).value
      ]_vars

(***************************************************************************)
(* Processes that call DataBaseHDD.df of wod at the same time, with the    *)
(* same parameters, against a Jacobian an earlier process persisted.  Each *)
(* process has a data base object of its own, so a memory tier of its own, *)
(* and all share the persistent tier.  A process takes the steps           *)
(* get_value (with the width test that follows it), df_calculate and       *)
(* save_value one at a time, and the steps of different processes          *)
(* interleave freely.  call.procs[i] is process i: its position pc, its    *)
(* memory tier mem, its local df, the number of its writes to the          *)
(* persistent tier and the array it returned.                              *)
(***************************************************************************)
NumProcesses == 2

Processes == 1..NumProcesses

InitConcurrent ==
    /\ hdd_mem = EmptyMem(Filenames)
    /\ par_mem = EmptyMem(MemNames)
    /\ last = NoRequest
    /\ evaluator = "sound"
    /\ base = NewDataBase({})
    /\ \E key \in OneKey, p \in PCounts, persisted \in PCounts :
         /\ disk = [k \in Keys \cup Vectors |-> [n \in Filenames |->
                      IF k = key /\ n = DF_cache_filename
                      THEN WOD_df_calculate(key, persisted) ELSE NoValue]]
         /\ call = [op |-> "concurrent", key |-> key, p |-> p,
                    persisted |-> WOD_df_calculate(key, persisted),
                    procs |-> [i \in Processes |->
                                 [pc |-> "get_value", mem |-> EmptyMem(Filenames),
                                  df |-> NoValue, writes |-> 0, outcome |-> "none",
                                  value |-> NoValue]]]

\* lines 269-276: the lookup, the shape assertion and the width test
ProcessGetValue ==
    \E i \in Processes :
      /\ call.procs[i].pc = "get_value"
      /\ LET st == [disk |-> disk, mem |-> call.procs[i].mem]
         IN  \E promote \in Promotes(st, call.key, DF_cache_filename) :
               \E g \in {CacheGetValue(st, call.key, DF_cache_filename,
                                       WOD_df_calculate(call.key, call.p), promote)} :
                 LET shaped == IsMeasurementMatrix(g.value)
                     many == shaped /\ HasTooManyColumns(g.value, call.p)
                     few == shaped /\ ~many /\ HasTooFewColumns(g.value, call.p)
                     df == IF many THEN Truncate(g.value, call.p) ELSE g.value
                 IN  /\ disk' = g.st.disk
                     /\ call' = [call EXCEPT
                           !.procs[i].mem = g.st.mem,
                           !.procs[i].df = df,
                           !.procs[i].writes = @ + (IF g.tier = "computed" THEN 1 ELSE 0),
                           !.procs[i].pc = IF few THEN "df_calculate" ELSE "done",
                           !.procs[i].outcome =
                               IF few THEN "none"
                               ELSE IF shaped /\ Width(df) = call.p THEN "ok"
                               ELSE "AssertionError",
                           !.procs[i].value =
                               IF ~few /\ shaped /\ Width(df) = call.p THEN df
                               ELSE NoValue]
      /\ UNCHANGED <<hdd_mem, par_mem, last, evaluator, base>>

\* line 280: df = self.df_calculate(parameters)
ProcessDFCalculate ==
    \E i \in Processes :
      /\ call.procs[i].pc = "df_calculate"
      /\ call' = [call EXCEPT !.procs[i].df = WOD_df_calculate(call.key, call.p),
                              !.procs[i].pc = "save_value"]
      /\ UNCHANGED caches

\* lines 281-285: save_value, the width assertion and the return
ProcessSaveValue ==
    \E i \in Processes :
      /\ call.procs[i].pc = "save_value"
      /\ \E st \in {SaveRecalculated([disk |-> disk, mem |-> call.procs[i].mem],
                                     call.key, DF_cache_filename, call.procs[i].df)} :
           /\ disk' = st.disk
           /\ call' = [call EXCEPT
                 !.procs[i].mem = st.mem,
                 !.procs[i].writes = @ + 1,
                 !.procs[i].pc = "done",
                 !.procs[i].outcome = IF Width(call.procs[i].df) = call.p THEN "ok"
                                      ELSE "AssertionError",
                 !.procs[i].value = IF Width(call.procs[i].df) = call.p
                                    THEN call.procs[i].df ELSE NoValue]
      /\ UNCHANGED <<hdd_mem, par_mem, last, evaluator, base>>

NextConcurrent == ProcessGetValue \/ ProcessDFCalculate \/ ProcessSaveValue

SpecConcurrent == InitConcurrent /\ [][NextConcurrent]_vars

AllDone == \A i \in Processes : call.procs[i].pc = "done"

(***************************************************************************)
(* C25  Concurrent stale readers converge.  When the processes call        *)
(* DataBaseHDD.df with the same parameters against a persisted Jacobian    *)
(* with fewer columns than parameters, then under every interleaving of    *)
(* their get_value, df_calculate and save_value steps each call returns    *)
(* the evaluator's output for these parameters, with one column for each   *)
(* parameter, and the persisted entry is that array once all have          *)
(* finished.  When the persisted Jacobian has at least as many columns as  *)
(* there are parameters, no process ever writes and the persisted entry    *)
(* stays as it was.                                                        *)
(***************************************************************************)
C25_StaleReadersConverge ==
    call.op = "concurrent"
        => /\ (Width(call.persisted) < call.p /\ AllDone)
                => /\ \A i \in Processes :
                        /\ call.procs[i].outcome = "ok"
                        /\ call.procs[i].value = WOD_df_calculate(call.key, call.p)
                        /\ Width(call.procs[i].value) = call.p
                   /\ disk[call.key][DF_cache_filename] = WOD_df_calculate(call.key, call.p)
                   /\ Width(disk[call.key][DF_cache_filename]) = call.p
           /\ Width(call.persisted) >= call.p
                => /\ \A i \in Processes : call.procs[i].writes = 0
                   /\ disk[call.key][DF_cache_filename] = call.persisted

\* every process found the stale Jacobian, recomputed and saved
C25_Witness ==
    /\ call.op = "concurrent"
    /\ Width(call.persisted) < call.p
    /\ AllDone
    /\ \A i \in Processes : call.procs[i].writes = 1 /\ call.procs[i].outcome = "ok"
    /\ Width(disk[call.key][DF_cache_filename]) = call.p

(***************************************************************************)
(* CostFunctionJob (simulation/optimization/job.py) and the directories it *)
(* works in.  A path is the sequence of its components and None is the     *)
(* empty sequence.  base is the file system: the directories and the files *)
(* that exist.  call is the job the last construction made: the output_dir *)
(* argument as given, the output_dir and remove_output_dir_on_close the    *)
(* job object was initialised with, its name, the memory of its node setup *)
(* beyond the default and the calls of the script it wrote.                *)
(***************************************************************************)
MaxTempNames == 2

None == << >>
DATABASE_TMP_DIR == <<"database_tmp">>
TempName(k) == <<"cost_function_tmp_", k>>

\* tempfile.mkdtemp(dir=dir, prefix='cost_function_tmp_'): the names it may
\* pick, none of which exists
mkdtemp(fs, dir) ==
    {dir \o <<TempName(k)>> : k \in 1..MaxTempNames} \ fs.dirs

\* variant: the flag is computed after output_dir has been replaced
CostFunctionJob_init_FlagAfterwards(fs, cf_kind, output_dir_argument, eval_f, eval_df, created) ==
    LET output_dir == IF output_dir_argument = None THEN created ELSE output_dir_argument
        remove_output_dir_on_close == output_dir = None
        made == IF output_dir_argument = None THEN {DATABASE_TMP_DIR} ELSE {}
    IN  IF output_dir = None
        THEN [fs |-> [fs EXCEPT !.dirs = @ \cup made], outcome |-> "FileExistsError",
              output_dir |-> None, remove_output_dir_on_close |-> FALSE,
              job_name |-> << >>, memory |-> 0, script |-> << >>]
        ELSE [fs |-> [dirs |-> fs.dirs \cup made \cup {output_dir},
                      files |-> fs.files \cup {output_dir \o <<"run.py">>,
                                                output_dir \o <<"job_file">>}],
              outcome |-> "ok",
              output_dir |-> output_dir,
              remove_output_dir_on_close |-> remove_output_dir_on_close,
              job_name |-> <<cf_kind>>,
              memory |-> (IF eval_df THEN 5 ELSE 0) + (IF cf_kind = "GLS" THEN 20 ELSE 0),
              script |-> (IF eval_f THEN <<"cf.f()">> ELSE << >>)
                         \o (IF eval_df THEN <<"cf.df()">> ELSE << >>)]

\* CostFunctionJob.__init__; created is the directory mkdtemp made, None when
\* every name is taken
CostFunctionJob_init(fs, cf_kind, output_dir_argument, eval_f, eval_df, created) ==
    LET remove_output_dir_on_close == output_dir_argument = None
        output_dir == IF output_dir_argument = None THEN created ELSE output_dir_argument
        \* os.makedirs(DATABASE_TMP_DIR, exist_ok=True)
        made == IF output_dir_argument = None THEN {DATABASE_TMP_DIR} ELSE {}
    IN  IF output_dir = None
        THEN [fs |-> [fs EXCEPT !.dirs = @ \cup made], outcome |-> "FileExistsError",
              output_dir |-> None, remove_output_dir_on_close |-> FALSE,
              job_name |-> << >>, memory |-> 0, script |-> << >>]
        ELSE [fs |-> [dirs |-> fs.dirs \cup made \cup {output_dir},
                      files |-> fs.files \cup {output_dir \o <<"run.py">>,
                                                output_dir \o <<"job_file">>}],
              outcome |-> "ok",
              output_dir |-> output_dir,
              remove_output_dir_on_close |-> remove_output_dir_on_close,
              job_name |-> <<cf_kind>>,
              memory |-> (IF eval_df THEN 5 ELSE 0) + (IF cf_kind = "GLS" THEN 20 ELSE 0),
              script |-> (IF eval_f THEN <<"cf.f()">> ELSE << >>)
                         \o (IF eval_df THEN <<"cf.df()">> ELSE << >>)]

\* the output directories a caller hands in: one of its own, the temporary
\* root itself and a directory named like a temporary one
GivenOutputDirs ==
    {<<"output">>, DATABASE_TMP_DIR, DATABASE_TMP_DIR \o <<TempName(1)>>}

InitJobs ==
    /\ InitStores
    /\ base = [dirs |-> {}, files |-> {}]
    /\ call = [op |-> "none", output_dir_argument |-> None, outcome |-> "none",
               output_dir |-> None, remove_output_dir_on_close |-> FALSE,
               job_name |-> << >>, memory |-> 0, script |-> << >>]

Constructed(output_dir_argument, r) ==
    /\ base' = r.fs
    /\ call' = [op |-> "CostFunctionJob", output_dir_argument |-> output_dir_argument,
                outcome |-> r.outcome, output_dir |-> r.output_dir,
                remove_output_dir_on_close |-> r.remove_output_dir_on_close,
                job_name |-> r.job_name, memory |-> r.memory, script |-> r.script]
    /\ UNCHANGED stores

\* a job without an output_dir argument
NewJobTemporary ==
    \E cf_kind \in {"OLS", "GLS"}, eval_f \in BOOLEAN, eval_df \in BOOLEAN :
      \E created \in IF mkdtemp(base, DATABASE_TMP_DIR) = {} THEN {None}
                     ELSE mkdtemp(base, DATABASE_TMP_DIR) :
        Constructed(None, CostFunctionJob_init(base, cf_kind, None, eval_f, eval_df,
                                               created))

\* a job with the caller's output_dir
NewJobGiven ==
    \E cf_kind \in {"OLS", "GLS"}, eval_f \in BOOLEAN, eval_df \in BOOLEAN,
       output_dir \in GivenOutputDirs :
        Constructed(output_dir, CostFunctionJob_init(base, cf_kind, output_dir, eval_f,
                                                     eval_df, None))

NextJobs == NewJobTemporary \/ NewJobGiven

SpecJobs == InitJobs /\ [][NextJobs]_vars

(***************************************************************************)
(* C31  The output directory of a CostFunctionJob.  Constructed without an *)
(* output_dir, the job gets a directory that did not exist before, is      *)
(* created directly under DATABASE_TMP_DIR, and is configured to be        *)
(* removed on close.  Constructed with an output_dir, the job uses exactly *)
(* that directory and is never configured to remove it on close.           *)
(***************************************************************************)
C31_OutputDirLifecycle ==
    [][ (call'.op = "CostFunctionJob" /\ call'.outcome = "ok")
            => IF call'.output_dir_argument = None
               THEN /\ call'.output_dir \notin base.dirs
                    /\ call'.output_dir \in base'.dirs
                    /\ DATABASE_TMP_DIR \in base'.dirs
                    /\ Len(call'.output_dir) = Len(DATABASE_TMP_DIR) + 1
                    /\ SubSeq(call'.output_dir, 1, Len(DATABASE_TMP_DIR)) = DATABASE_TMP_DIR
                    /\ call'.remove_output_dir_on_close
               ELSE /\ call'.output_dir = call'.output_dir_argument
                    /\ ~call'.remove_output_dir_on_close ]_vars

\* a second temporary job, made after a caller handed in a directory named
\* like a temporary one
C31_Witness ==
    /\ call.op = "CostFunctionJob"
    /\ call.outcome = "ok"
    /\ call.output_dir_argument = None
    /\ call.remove_output_dir_on_close
    /\ call.output_dir = DATABASE_TMP_DIR \o <<TempName(2)>>
    /\ DATABASE_TMP_DIR \o <<TempName(1)>> \in base.dirs
    /\ call.output_dir \o <<"run.py">> \in base.files

=============================================================================
